---- MODULE Spec2Model ----
(***************************************************************************)
(* Model of the chat-assistant backend.                                    *)
(*                                                                         *)
(* Part I  : the hierarchical record store (be_ai/core/MongoDB/db.py) and  *)
(*           its access layer (be_ai/core/api.py): Title -> Chat ->        *)
(*           Context, one atomic step per storage call.                    *)
(* Part II : the in-memory conversation store (backend/app.py).            *)
(***************************************************************************)
EXTENDS Integers, Sequences, FiniteSets, TLC

\* ------------------------------------------------------------------ bounds
MaxTitles   == 2    \* Titles ever created (uuid4 values are drawn in order)
MaxChats    == 2    \* Chats ever created
MaxContexts == 2    \* Contexts ever created
MaxClock    == 1    \* last reading of the clock
NumProcs    == 2    \* request handlers that may be in flight at once

Procs      == 1..NumProcs
TitleIds   == 1..MaxTitles
ChatIds    == 1..MaxChats
ContextIds == 1..MaxContexts
\* title texts and opaque context objects a client may send
Texts      == {"t"}
Contexts   == {"a", "b"}
\* the context object a Context is created with (an update may send either)
NewContexts == {"a"}

VARIABLES
    Title,      \* collection "Title":   documents {id_title, title, create_at, last_update}
    Chat,       \* collection "Chat":    documents {id_chat, id_title, create_at}
    Context,    \* collection "Context": documents {id_context, id_chat, create_at, context}
    uuid,       \* the uuid4 values handed out so far, per collection
    now,        \* datetime.utcnow()
    pc,         \* per handler: the storage call it is about to make
    req,        \* per handler: the request it serves
    chat_ids,   \* per handler: ChatDB.delete_by_title's list still to visit
    doc,        \* per handler: the document the db layer built (title_doc, chat_doc, context_doc)
    chat,       \* per handler: ContextDB.create's chat = ChatDB.get_by_id(id_chat)
    ret,        \* per handler: the response (status and data)
    down,       \* per handler: killed in flight by a crash
    pre         \* the collections as they were when the request in flight began

store == <<Title, Chat, Context>>
hvars == <<Title, Chat, Context, uuid, now, pc, req, chat_ids, doc, chat, ret, down, pre>>

VARIABLES
    chat_database,        \* app.py's simulated database: conversations, messages
    keys,                 \* the keys of chat_database["messages"] in the dict's order
    uuid4,                \* the conversation ids uuid.uuid4() has handed out
    posts,                \* POST /api/messages requests accepted so far
    cpc,                  \* per thread: the statement of create_message it is about to run
    data,                 \* per thread: request.get_json()
    conversation_id,      \* per thread
    new_message,          \* per thread
    conversation_exists,  \* per thread
    resp                  \* per thread: the response (status and body)

cvars == <<chat_database, keys, uuid4, posts, cpc, data, conversation_id, new_message,
           conversation_exists, resp>>

VARIABLES
    reply                 \* the last response of a read-only endpoint of app.py

gvars == <<reply>>

VARIABLES
    text,                 \* _chunk_text's argument, a sequence of characters
    chunk_size,           \* _chunk_text's argument
    chunk_overlap,        \* _chunk_text's argument
    start,                \* _chunk_text's local
    chunks,               \* _chunk_text's local, and what it returns
    kpc                   \* where the call of _chunk_text stands

kvars == <<text, chunk_size, chunk_overlap, start, chunks, kpc>>
vars == <<hvars, cvars, gvars, kvars>>

NoReq == [op |-> "none", id |-> 0, context |-> "-"]
NoRet == [status |-> 0, data |-> {}]
Snapshot == [Title |-> Title, Chat |-> Chat, Context |-> Context, now |-> now]
NoPre == [Title |-> {}, Chat |-> {}, Context |-> {}, now |-> 0]

\* -------------------------------------------------- the storage engine
\* collection.find(...): the documents of a collection matching one field
find(coll, field, v) == {d \in coll : d[field] = v}
\* collection.delete_one / delete_many on a uniquely indexed or plain field
delete_many(coll, field, v) == coll \ find(coll, field, v)
\* result.deleted_count / the truthiness of find_one's result
count(coll, field, v) == Cardinality(find(coll, field, v))

\* (mutant) update_one with an empty filter: every Title is touched
TitleDB_update_any(id_title) ==
    {[t EXCEPT !.last_update = now] : t \in Title}

\* collection.update_one({"id_title": id}, {"$set": updates}) with
\* updates = {"last_update": utcnow()}
TitleDB_update(id_title) ==
    {IF t.id_title = id_title THEN [t EXCEPT !.last_update = now] ELSE t : t \in Title}

\* TitleDB.get_by_id / ChatDB.get_by_id / ContextDB.get_by_id: find_one, as
\* the set of the (at most one) document found
TitleDB_get_by_id(id_title)     == find(Title, "id_title", id_title)
ChatDB_get_by_id(id_chat)       == find(Chat, "id_chat", id_chat)
ContextDB_get_by_id(id_context) == find(Context, "id_context", id_context)
ChatDB_get_by_title(id_title)   == find(Chat, "id_title", id_title)
ContextDB_get_by_chat(id_chat)  == find(Context, "id_chat", id_chat)

\* --------------------------------------------------------------- Init
HInit ==
    /\ Title = {} /\ Chat = {} /\ Context = {}
    /\ uuid = [Title |-> 0, Chat |-> 0, Context |-> 0]
    /\ now = 0
    /\ pc = [p \in Procs |-> "idle"]
    /\ req = [p \in Procs |-> NoReq]
    /\ chat_ids = [p \in Procs |-> {}]
    /\ doc = [p \in Procs |-> {}]
    /\ chat = [p \in Procs |-> {}]
    /\ ret = [p \in Procs |-> NoRet]
    /\ down = [p \in Procs |-> FALSE]
    /\ pre = NoPre

\* ------------------------------------------------ a handler's control
Running(p) == ~down[p]
\* a request arrives at an idle handler, which makes its first storage call
Accept(p, op, id, context) ==
    /\ pc[p] = "idle" /\ Running(p)
    /\ req' = [req EXCEPT ![p] = [op |-> op, id |-> id, context |-> context]]
\* the handler is about to make the storage call `label`
At(p, label) == pc[p] = label /\ Running(p) /\ UNCHANGED req
\* the handler moves on to its next storage call
Goto(p, label) == pc' = [pc EXCEPT ![p] = label] /\ UNCHANGED ret
\* the handler answers: return {...} or raise HTTPException(status_code=...)
Answer(p, status, found) ==
    /\ pc' = [pc EXCEPT ![p] = "done"]
    /\ ret' = [ret EXCEPT ![p] = [status |-> status, data |-> found]]
\* handlers that passed their lookup and are about to insert a document
Inserting(label) == Cardinality({q \in Procs : pc[q] = label})

\* ------------------------------------------------------ Title requests
\* api.create_title -> TitleDB.create: one insert_one
create_title(p) ==
    /\ uuid.Title < MaxTitles
    /\ \E title_text \in Texts :
         LET title_doc == [id_title |-> uuid.Title + 1, title |-> title_text,
                           create_at |-> now, last_update |-> now]
         IN /\ Accept(p, "create_title", 0, title_text)
            /\ Title' = Title \cup {title_doc}
            /\ Answer(p, 200, {title_doc})
    /\ uuid' = [uuid EXCEPT !.Title = @ + 1]
    /\ UNCHANGED <<Chat, Context, now, chat_ids, doc, chat, down>>

\* api.get_title_by_id
get_title_by_id(p) ==
    /\ \E id_title \in TitleIds :
         /\ Accept(p, "get_title_by_id", id_title, "-")
         /\ IF TitleDB_get_by_id(id_title) = {}
            THEN Answer(p, 404, {})
            ELSE Answer(p, 200, TitleDB_get_by_id(id_title))
    /\ UNCHANGED <<store, uuid, now, chat_ids, doc, chat, down>>

\* (mutant) delete_title without its lookup
delete_title_unchecked(p) ==
    /\ \E id_title \in TitleIds :
         /\ Accept(p, "delete_title", id_title, "-")
         /\ Goto(p, "TitleDB_delete")
    /\ UNCHANGED <<store, uuid, now, chat_ids, doc, chat, down>>

\* api.delete_title: the lookup that guards the delete
delete_title(p) ==
    /\ \E id_title \in TitleIds :
         /\ Accept(p, "delete_title", id_title, "-")
         /\ IF TitleDB_get_by_id(id_title) = {}
            THEN Answer(p, 404, {})
            ELSE Goto(p, "TitleDB_delete")
    /\ UNCHANGED <<store, uuid, now, chat_ids, doc, chat, down>>

\* (mutant) TitleDB.delete that starts the cascade and leaves the row
TitleDB_delete_keeps_row(p) ==
    /\ At(p, "TitleDB_delete")
    /\ IF count(Title, "id_title", req[p].id) > 0
       THEN Goto(p, "ChatDB_delete_by_title")
       ELSE Answer(p, 500, {})
    /\ UNCHANGED <<store, uuid, now, chat_ids, doc, chat, down>>

\* TitleDB.delete: delete_one on the Title row; the cascade follows only
\* if a row was deleted, and "Delete failed" (500) is answered otherwise
TitleDB_delete(p) ==
    /\ At(p, "TitleDB_delete")
    /\ Title' = delete_many(Title, "id_title", req[p].id)
    /\ IF count(Title, "id_title", req[p].id) > 0
       THEN Goto(p, "ChatDB_delete_by_title")
       ELSE Answer(p, 500, {})
    /\ UNCHANGED <<Chat, Context, uuid, now, chat_ids, doc, chat, down>>

\* ChatDB.delete_by_title: chat_ids = [chat["id_chat"] for chat in find(...)]
ChatDB_delete_by_title(p) ==
    /\ At(p, "ChatDB_delete_by_title")
    /\ LET ids == {c.id_chat : c \in ChatDB_get_by_title(req[p].id)}
       IN /\ chat_ids' = [chat_ids EXCEPT ![p] = ids]
          /\ Goto(p, IF ids = {} THEN "ChatDB_delete_by_title_chats"
                                 ELSE "ChatDB_delete_by_title_contexts")
    /\ UNCHANGED <<store, uuid, now, doc, chat, down>>

\* (mutant) the loop visits the chat ids and deletes no Context
ChatDB_delete_by_title_no_contexts(p) ==
    /\ At(p, "ChatDB_delete_by_title_contexts")
    /\ \E chat_id \in chat_ids[p] :
         /\ chat_ids' = [chat_ids EXCEPT ![p] = @ \ {chat_id}]
         /\ Goto(p, IF chat_ids[p] = {chat_id} THEN "ChatDB_delete_by_title_chats"
                                               ELSE "ChatDB_delete_by_title_contexts")
    /\ UNCHANGED <<store, uuid, now, doc, chat, down>>

\* ChatDB.delete_by_title: for chat_id in chat_ids: ContextDB.delete_by_chat(chat_id)
ChatDB_delete_by_title_contexts(p) ==
    /\ At(p, "ChatDB_delete_by_title_contexts")
    /\ \E chat_id \in chat_ids[p] :
         /\ Context' = delete_many(Context, "id_chat", chat_id)
         /\ chat_ids' = [chat_ids EXCEPT ![p] = @ \ {chat_id}]
         /\ Goto(p, IF chat_ids[p] = {chat_id} THEN "ChatDB_delete_by_title_chats"
                                               ELSE "ChatDB_delete_by_title_contexts")
    /\ UNCHANGED <<Title, Chat, uuid, now, doc, chat, down>>

\* ChatDB.delete_by_title: delete_many({"id_title": id_title}); TitleDB.delete
\* returns True and delete_title answers success
ChatDB_delete_by_title_chats(p) ==
    /\ At(p, "ChatDB_delete_by_title_chats")
    /\ Chat' = delete_many(Chat, "id_title", req[p].id)
    /\ Answer(p, 200, {})
    /\ UNCHANGED <<Title, Context, uuid, now, chat_ids, doc, chat, down>>

\* ------------------------------------------------------- Chat requests
\* api.create_chat: verify the title exists
create_chat(p) ==
    /\ \E id_title \in TitleIds :
         /\ Accept(p, "create_chat", id_title, "-")
         /\ IF TitleDB_get_by_id(id_title) = {}
            THEN Answer(p, 404, {})
            ELSE /\ uuid.Chat + Inserting("ChatDB_create") < MaxChats
                 /\ Goto(p, "ChatDB_create")
    /\ UNCHANGED <<store, uuid, now, chat_ids, doc, chat, down>>

\* ChatDB.create: insert_one(chat_doc)
ChatDB_create(p) ==
    /\ At(p, "ChatDB_create")
    /\ LET chat_doc == [id_chat |-> uuid.Chat + 1, id_title |-> req[p].id,
                        create_at |-> now]
       IN /\ Chat' = Chat \cup {chat_doc}
          /\ doc' = [doc EXCEPT ![p] = {chat_doc}]
    /\ uuid' = [uuid EXCEPT !.Chat = @ + 1]
    /\ Goto(p, "ChatDB_create_update")
    /\ UNCHANGED <<Title, Context, now, chat_ids, chat, down>>

\* ChatDB.create: TitleDB.update(id_title, {}), then the chat is returned
ChatDB_create_update(p) ==
    /\ At(p, "ChatDB_create_update")
    /\ Title' = TitleDB_update(req[p].id)
    /\ Answer(p, 200, doc[p])
    /\ UNCHANGED <<Chat, Context, uuid, now, chat_ids, doc, chat, down>>

\* api.get_chat_by_id
get_chat_by_id(p) ==
    /\ \E id_chat \in ChatIds :
         /\ Accept(p, "get_chat_by_id", id_chat, "-")
         /\ IF ChatDB_get_by_id(id_chat) = {}
            THEN Answer(p, 404, {})
            ELSE Answer(p, 200, ChatDB_get_by_id(id_chat))
    /\ UNCHANGED <<store, uuid, now, chat_ids, doc, chat, down>>

\* api.get_chats_by_title: verify the title exists
get_chats_by_title(p) ==
    /\ \E id_title \in TitleIds :
         /\ Accept(p, "get_chats_by_title", id_title, "-")
         /\ IF TitleDB_get_by_id(id_title) = {}
            THEN Answer(p, 404, {})
            ELSE Goto(p, "ChatDB_get_by_title")
    /\ UNCHANGED <<store, uuid, now, chat_ids, doc, chat, down>>

\* ChatDB.get_by_title (at most limit = 100 documents, more than MaxChats)
get_chats_by_title_find(p) ==
    /\ At(p, "ChatDB_get_by_title")
    /\ Answer(p, 200, ChatDB_get_by_title(req[p].id))
    /\ UNCHANGED <<store, uuid, now, chat_ids, doc, chat, down>>

\* api.delete_chat: the lookup that guards the delete
delete_chat(p) ==
    /\ \E id_chat \in ChatIds :
         /\ Accept(p, "delete_chat", id_chat, "-")
         /\ IF ChatDB_get_by_id(id_chat) = {}
            THEN Answer(p, 404, {})
            ELSE Goto(p, "ChatDB_delete")
    /\ UNCHANGED <<store, uuid, now, chat_ids, doc, chat, down>>

\* (mutant) ChatDB.delete that removes the Chat and its Contexts in one call
ChatDB_delete_with_contexts(p) ==
    /\ At(p, "ChatDB_delete")
    /\ Chat' = delete_many(Chat, "id_chat", req[p].id)
    /\ Context' = delete_many(Context, "id_chat", req[p].id)
    /\ IF count(Chat, "id_chat", req[p].id) > 0
       THEN Goto(p, "ContextDB_delete_by_chat")
       ELSE Answer(p, 500, {})
    /\ UNCHANGED <<Title, uuid, now, chat_ids, doc, chat, down>>

\* ChatDB.delete: delete_one on the Chat row
ChatDB_delete(p) ==
    /\ At(p, "ChatDB_delete")
    /\ Chat' = delete_many(Chat, "id_chat", req[p].id)
    /\ IF count(Chat, "id_chat", req[p].id) > 0
       THEN Goto(p, "ContextDB_delete_by_chat")
       ELSE Answer(p, 500, {})
    /\ UNCHANGED <<Title, Context, uuid, now, chat_ids, doc, chat, down>>

\* (mutant) delete_many with an empty filter: every Context is removed
ChatDB_delete_all_contexts(p) ==
    /\ At(p, "ContextDB_delete_by_chat")
    /\ Context' = {}
    /\ Answer(p, 200, {})
    /\ UNCHANGED <<Title, Chat, uuid, now, chat_ids, doc, chat, down>>

\* ChatDB.delete: ContextDB.delete_by_chat(id_chat), then success
ChatDB_delete_contexts(p) ==
    /\ At(p, "ContextDB_delete_by_chat")
    /\ Context' = delete_many(Context, "id_chat", req[p].id)
    /\ Answer(p, 200, {})
    /\ UNCHANGED <<Title, Chat, uuid, now, chat_ids, doc, chat, down>>

\* ---------------------------------------------------- Context requests
\* api.create_context: verify the chat exists
create_context(p) ==
    /\ \E id_chat \in ChatIds, context \in NewContexts :
         /\ Accept(p, "create_context", id_chat, context)
         /\ IF ChatDB_get_by_id(id_chat) = {}
            THEN Answer(p, 404, {})
            ELSE /\ uuid.Context + Inserting("ContextDB_create") < MaxContexts
                 /\ Goto(p, "ContextDB_create")
    /\ UNCHANGED <<store, uuid, now, chat_ids, doc, chat, down>>

\* ContextDB.create: insert_one(context_doc)
ContextDB_create(p) ==
    /\ At(p, "ContextDB_create")
    /\ LET context_doc == [id_chat |-> req[p].id, id_context |-> uuid.Context + 1,
                           create_at |-> now, context |-> req[p].context]
       IN /\ Context' = Context \cup {context_doc}
          /\ doc' = [doc EXCEPT ![p] = {context_doc}]
    /\ uuid' = [uuid EXCEPT !.Context = @ + 1]
    /\ Goto(p, "ContextDB_create_get")
    /\ UNCHANGED <<Title, Chat, now, chat_ids, chat, down>>

\* ContextDB.create: chat = ChatDB.get_by_id(id_chat); without a chat the
\* context is returned at once
ContextDB_create_get(p) ==
    /\ At(p, "ContextDB_create_get")
    /\ chat' = [chat EXCEPT ![p] = ChatDB_get_by_id(req[p].id)]
    /\ IF ChatDB_get_by_id(req[p].id) = {}
       THEN Answer(p, 200, doc[p])
       ELSE Goto(p, "ContextDB_create_update")
    /\ UNCHANGED <<store, uuid, now, chat_ids, doc, down>>

\* ContextDB.create: TitleDB.update(chat["id_title"], {}), then the context
\* is returned
ContextDB_create_update(p) ==
    /\ At(p, "ContextDB_create_update")
    /\ \E c \in chat[p] : Title' = TitleDB_update(c.id_title)
    /\ Answer(p, 200, doc[p])
    /\ UNCHANGED <<Chat, Context, uuid, now, chat_ids, doc, chat, down>>

\* api.get_context_by_id
get_context_by_id(p) ==
    /\ \E id_context \in ContextIds :
         /\ Accept(p, "get_context_by_id", id_context, "-")
         /\ IF ContextDB_get_by_id(id_context) = {}
            THEN Answer(p, 404, {})
            ELSE Answer(p, 200, ContextDB_get_by_id(id_context))
    /\ UNCHANGED <<store, uuid, now, chat_ids, doc, chat, down>>

\* (mutant) get_contexts_by_chat without its lookup of the chat
get_contexts_by_chat_unchecked(p) ==
    /\ \E id_chat \in ChatIds :
         /\ Accept(p, "get_contexts_by_chat", id_chat, "-")
         /\ Goto(p, "ContextDB_get_by_chat")
    /\ UNCHANGED <<store, uuid, now, chat_ids, doc, chat, down>>

\* api.get_contexts_by_chat: verify the chat exists
get_contexts_by_chat(p) ==
    /\ \E id_chat \in ChatIds :
         /\ Accept(p, "get_contexts_by_chat", id_chat, "-")
         /\ IF ChatDB_get_by_id(id_chat) = {}
            THEN Answer(p, 404, {})
            ELSE Goto(p, "ContextDB_get_by_chat")
    /\ UNCHANGED <<store, uuid, now, chat_ids, doc, chat, down>>

\* ContextDB.get_by_chat (at most limit = 100 documents, more than MaxContexts)
get_contexts_by_chat_find(p) ==
    /\ At(p, "ContextDB_get_by_chat")
    /\ Answer(p, 200, ContextDB_get_by_chat(req[p].id))
    /\ UNCHANGED <<store, uuid, now, chat_ids, doc, chat, down>>

\* api.update_context: check that the context exists
update_context(p) ==
    /\ \E id_context \in ContextIds, context \in Contexts :
         /\ Accept(p, "update_context", id_context, context)
         /\ IF ContextDB_get_by_id(id_context) = {}
            THEN Answer(p, 404, {})
            ELSE Goto(p, "ContextDB_update")
    /\ UNCHANGED <<store, uuid, now, chat_ids, doc, chat, down>>

\* ContextDB.update: update_one({"id_context": ...}, {"$set": {"context": ...}});
\* modified_count counts the documents whose value changed
ContextDB_update(p) ==
    /\ At(p, "ContextDB_update")
    /\ Context' = {IF x.id_context = req[p].id
                   THEN [x EXCEPT !.context = req[p].context] ELSE x : x \in Context}
    /\ IF \E x \in ContextDB_get_by_id(req[p].id) : x.context # req[p].context
       THEN Goto(p, "update_context_get")
       ELSE Answer(p, 500, {})
    /\ UNCHANGED <<Title, Chat, uuid, now, chat_ids, doc, chat, down>>

\* api.update_context: updated_context = ContextDB.get_by_id(id_context)
update_context_get(p) ==
    /\ At(p, "update_context_get")
    /\ Answer(p, 200, ContextDB_get_by_id(req[p].id))
    /\ UNCHANGED <<store, uuid, now, chat_ids, doc, chat, down>>

\* api.delete_context: the lookup that guards the delete
delete_context(p) ==
    /\ \E id_context \in ContextIds :
         /\ Accept(p, "delete_context", id_context, "-")
         /\ IF ContextDB_get_by_id(id_context) = {}
            THEN Answer(p, 404, {})
            ELSE Goto(p, "ContextDB_delete")
    /\ UNCHANGED <<store, uuid, now, chat_ids, doc, chat, down>>

\* ContextDB.delete: delete_one on the Context row
ContextDB_delete(p) ==
    /\ At(p, "ContextDB_delete")
    /\ Context' = delete_many(Context, "id_context", req[p].id)
    /\ IF count(Context, "id_context", req[p].id) > 0
       THEN Answer(p, 200, {})
       ELSE Answer(p, 500, {})
    /\ UNCHANGED <<Title, Chat, uuid, now, chat_ids, doc, chat, down>>

\* ------------------------------------------------------- environment
\* the response is sent; the handler is free again
Respond(p) ==
    /\ pc[p] = "done" /\ Running(p)
    /\ pc' = [pc EXCEPT ![p] = "idle"]
    /\ req' = [req EXCEPT ![p] = NoReq]
    /\ ret' = [ret EXCEPT ![p] = NoRet]
    /\ chat_ids' = [chat_ids EXCEPT ![p] = {}]
    /\ doc' = [doc EXCEPT ![p] = {}]
    /\ chat' = [chat EXCEPT ![p] = {}]
    /\ UNCHANGED <<store, uuid, now, down>>

\* the clock advances
Tick ==
    /\ now < MaxClock
    /\ now' = now + 1
    /\ UNCHANGED <<store, uuid, pc, req, chat_ids, doc, chat, ret, down>>

\* the server is killed between two storage calls of a request
Crash(p) ==
    /\ pc[p] \notin {"idle", "done"} /\ Running(p)
    /\ down' = [down EXCEPT ![p] = TRUE]
    /\ UNCHANGED <<store, uuid, now, pc, req, chat_ids, doc, chat, ret>>

\* the server comes back; nothing of the request in flight survives but
\* what it wrote to the collections
Restart(p) ==
    /\ down[p]
    /\ down' = [down EXCEPT ![p] = FALSE]
    /\ pc' = [pc EXCEPT ![p] = "idle"]
    /\ req' = [req EXCEPT ![p] = NoReq]
    /\ ret' = [ret EXCEPT ![p] = NoRet]
    /\ chat_ids' = [chat_ids EXCEPT ![p] = {}]
    /\ doc' = [doc EXCEPT ![p] = {}]
    /\ chat' = [chat EXCEPT ![p] = {}]
    /\ UNCHANGED <<store, uuid, now>>

\* =====================================================================
\* Part II: the conversation store of backend/app.py
\* =====================================================================
\* Timestamps are ISO-8601 strings, compared as strings. They are modelled
\* by numbers in the same order: a seeded "2024-10-DDThh:mm:00Z" by DDhhmm,
\* a reading of datetime.datetime.now() by a number past all of those.
MaxPosts == 2    \* POST /api/messages requests in one behaviour
Threads == Procs
Timestamp(t) == 1000000 + t

\* The seeded records of chat_database, as in the source but for the letter
\* D with stroke, which the module's strings cannot hold and is written D, d.

SeedConversations == <<
    [id |-> "conv_001", title |-> "Unclear Input, Seeking Assistance",
     lastMessage |-> "Could you please clarify what you're looking for?",
     timestamp |-> 251030, messageCount |-> 5],
    [id |-> "conv_002", title |-> "Hướng dẫn cài Node.js và MongoDB",
     lastMessage |-> "Dể cài dặt Node.js và MongoDB, bạn cần làm theo các bước sau...",
     timestamp |-> 250915, messageCount |-> 8],
    [id |-> "conv_003", title |-> "Hướng dẫn thiết kế mạch dếm 00-99",
     lastMessage |-> "Mạch dếm 00-99 sử dụng 2 IC 74LS90 và các cổng logic...",
     timestamp |-> 250845, messageCount |-> 12],
    [id |-> "conv_004", title |-> "Synchronous Parallel Data Load",
     lastMessage |-> "Synchronous parallel loading improves performance by...",
     timestamp |-> 241620, messageCount |-> 6],
    [id |-> "conv_005", title |-> "So Sánh Thanh Ghi Dịch IO",
     lastMessage |-> "Thanh ghi dịch IO có các dặc diểm khác nhau về tốc dộ...",
     timestamp |-> 241430, messageCount |-> 9],
    [id |-> "conv_006", title |-> "Hàm Lambda trong C++",
     lastMessage |-> "Lambda functions trong C++ cho phép bạn viết code ngắn gọn...",
     timestamp |-> 241115, messageCount |-> 7],
    [id |-> "conv_007", title |-> "Cập nhật One Piece: God Valley",
     lastMessage |-> "Trong chapter mới nhất, chúng ta thấy dược bí mật của God Valley...",
     timestamp |-> 232000, messageCount |-> 15],
    [id |-> "conv_008", title |-> "Hướng dẫn phân loại táo bằng Computer Vision",
     lastMessage |-> "Sử dụng OpenCV và machine learning dể phân loại táo...",
     timestamp |-> 231530, messageCount |-> 11],
    [id |-> "conv_009", title |-> "Giải thích Bảng Trạng Thái Thanh Ghi",
     lastMessage |-> "Bảng trạng thái mô tả hoạt dộng của thanh ghi dịch...",
     timestamp |-> 221345, messageCount |-> 4],
    [id |-> "conv_010", title |-> "Phân tích thống kê diểm số nhóm",
     lastMessage |-> "Dựa trên dữ liệu diểm số, nhóm có diểm trung bình 8.5...",
     timestamp |-> 221020, messageCount |-> 6],
    [id |-> "conv_011", title |-> "Idea mini game khởi dộng họp clb",
     lastMessage |-> "Dề xuất một số mini game dể khởi dộng buổi họp CLB...",
     timestamp |-> 211800, messageCount |-> 8],
    [id |-> "conv_012", title |-> "Flip-Flop Lab: Divide-by-4 Counter",
     lastMessage |-> "Thí nghiệm Flip-Flop dể tạo bộ dếm chia 4...",
     timestamp |-> 211415, messageCount |-> 10] >>

SeedMessages_conv_001 == <<
    [id |-> "msg_001_1", sender |-> "user", timestamp |-> 251025,
     content |-> "I need help with something but I'm not sure how to explain it"],
    [id |-> "msg_001_2", sender |-> "assistant", timestamp |-> 251026,
     content |-> "I'd be happy to help! Could you provide more details about what you're trying to accomplish?"],
    [id |-> "msg_001_3", sender |-> "user", timestamp |-> 251028,
     content |-> "It's related to programming but I don't know the exact terms"],
    [id |-> "msg_001_4", sender |-> "assistant", timestamp |-> 251029,
     content |-> "No problem! You can describe it in your own words, and I'll help you figure out the technical details."],
    [id |-> "msg_001_5", sender |-> "assistant", timestamp |-> 251030,
     content |-> "Could you please clarify what you're looking for?"] >>

SeedMessages_conv_002 == <<
    [id |-> "msg_002_1", sender |-> "user", timestamp |-> 250910,
     content |-> "Làm sao dể cài dặt Node.js và MongoDB trên máy tính?"],
    [id |-> "msg_002_2", sender |-> "assistant", timestamp |-> 250911,
     content |-> "Dể cài dặt Node.js và MongoDB, bạn có thể làm theo các bước sau:"],
    [id |-> "msg_002_3", sender |-> "assistant", timestamp |-> 250912,
     content |-> "1. Tải Node.js từ trang chủ nodejs.org"],
    [id |-> "msg_002_4", sender |-> "assistant", timestamp |-> 250913,
     content |-> "2. Cài dặt MongoDB Community Edition"],
    [id |-> "msg_002_5", sender |-> "user", timestamp |-> 250914,
     content |-> "Có cách nào cài dặt nhanh hơn không?"],
    [id |-> "msg_002_6", sender |-> "assistant", timestamp |-> 250915,
     content |-> "Bạn có thể sử dụng package manager như Homebrew (macOS) hoặc Chocolatey (Windows)"],
    [id |-> "msg_002_7", sender |-> "assistant", timestamp |-> 250915,
     content |-> "Dể cài dặt Node.js và MongoDB, bạn cần làm theo các bước sau..."] >>

SeedMessages == [k \in {"conv_001", "conv_002"} |->
                    IF k = "conv_001" THEN SeedMessages_conv_001 ELSE SeedMessages_conv_002]

\* request bodies: a key that is missing from the JSON object is Absent
Absent == "<absent>"
NoBody == [content |-> Absent, sender |-> Absent, conversationId |-> Absent, json |-> FALSE]
\* contents of 50 and of 51 characters, on either side of the title's cut
Fifty == "A first message of exactly fifty characters, here."
Long == "A first message of fifty-one characters, cut here.."
ValidBodies ==
    [content : {"Hello", Fifty, Long}, sender : {"user"},
     conversationId : {Absent, "conv_001", "c1"}, json : {TRUE}]
    \cup [content : {"Hello"}, sender : {"assistant"},
          conversationId : {"conv_001"}, json : {TRUE}]
InvalidBodies ==
    {NoBody}
    \cup [content : {Absent, ""}, sender : {"user"}, conversationId : {"c1"}, json : {TRUE}]
    \cup [content : {"Hello"}, sender : {Absent, ""}, conversationId : {"c1"}, json : {TRUE}]
Bodies == ValidBodies \cup InvalidBodies
NoMessage == [id |-> "", sender |-> "", timestamp |-> 0, content |-> ""]
NoResp == [status |-> 0, message |-> NoMessage, conversationId |-> ""]

CInit ==
    /\ chat_database = [conversations |-> SeedConversations, messages |-> SeedMessages]
    /\ keys = <<"conv_001", "conv_002">>
    /\ uuid4 = 0
    /\ posts = 0
    /\ cpc = [t \in Threads |-> "idle"]
    /\ data = [t \in Threads |-> NoBody]
    /\ conversation_id = [t \in Threads |-> ""]
    /\ new_message = [t \in Threads |-> NoMessage]
    /\ conversation_exists = [t \in Threads |-> FALSE]
    /\ resp = [t \in Threads |-> NoResp]

NoReply == [endpoint |-> "none"]
GInit == reply = NoReply

\* no call of _chunk_text yet
KInit ==
    /\ text = << >> /\ chunk_size = 1 /\ chunk_overlap = 0
    /\ start = 0 /\ chunks = << >> /\ kpc = "idle"

Init == HInit /\ CInit /\ GInit /\ KInit

\* chat_database['messages'].get(conversation_id, [])
messages_get(cid) ==
    IF cid \in DOMAIN chat_database.messages THEN chat_database.messages[cid] ELSE <<>>
\* (mutant) the count is used as it is, without the + 1
MessageId_from_zero(cid) ==
    "msg_" \o cid \o "_" \o ToString(Len(messages_get(cid)))
\* f"msg_{conversation_id}_{len(chat_database['messages'].get(conversation_id, [])) + 1}"
MessageId(cid) ==
    "msg_" \o cid \o "_" \o ToString(Len(messages_get(cid)) + 1)
\* the n-th value of str(uuid.uuid4())
Uuid(n) == "uuid-" \o ToString(n)
\* (mutant) the sender is not looked at
Invalid_content_only(body) ==
    \/ ~body.json
    \/ body.content \in {Absent, ""}
\* not data or not data.get('content') or not data.get('sender')
Invalid(body) ==
    \/ ~body.json
    \/ body.content \in {Absent, ""}
    \/ body.sender \in {Absent, ""}
\* (mutant) the cut applies from 50 characters on
TitleOf_from_fifty(content) ==
    IF Len(content) >= 50 THEN SubSeq(content, 1, 50) \o "..." ELSE content
\* data['content'][:50] + "..." if len(data['content']) > 50 else data['content']
TitleOf(content) ==
    IF Len(content) > 50 THEN SubSeq(content, 1, 50) \o "..." ELSE content
\* the positions of the Conversation records carrying an id
Positions(cid) ==
    {i \in DOMAIN chat_database.conversations : chat_database.conversations[i].id = cid}
CAt(t, label) ==
    /\ cpc[t] = label
    /\ UNCHANGED <<data, conversation_id, new_message, uuid4, posts>>
\* a key the dict holds keeps its place; a new key goes last
setitem(ks, k) == IF \E i \in DOMAIN ks : ks[i] = k THEN ks ELSE Append(ks, k)
CGoto(t, label) == cpc' = [cpc EXCEPT ![t] = label]

\* create_message, lines 147-160: validation, conversation_id, new_message
create_message(t) ==
    /\ cpc[t] = "idle"
    /\ posts < MaxPosts
    /\ posts' = posts + 1
    /\ \E body \in Bodies :
         /\ data' = [data EXCEPT ![t] = body]
         /\ IF Invalid(body)
            THEN /\ CGoto(t, "done")
                 /\ resp' = [resp EXCEPT ![t] = [NoResp EXCEPT !.status = 400]]
                 /\ UNCHANGED <<conversation_id, new_message, uuid4>>
            ELSE LET cid == IF body.conversationId = Absent
                            THEN Uuid(uuid4 + 1) ELSE body.conversationId
                 IN /\ uuid4' = IF body.conversationId = Absent THEN uuid4 + 1 ELSE uuid4
                    /\ conversation_id' = [conversation_id EXCEPT ![t] = cid]
                    /\ new_message' = [new_message EXCEPT ![t] =
                         [id |-> MessageId(cid),
                          content |-> body.content, sender |-> body.sender,
                          timestamp |-> Timestamp(now)]]
                    /\ CGoto(t, "messages_check")
                    /\ UNCHANGED resp
    /\ UNCHANGED <<chat_database, keys, conversation_exists>>

\* line 163: if conversation_id not in chat_database["messages"]
messages_check(t) ==
    /\ CAt(t, "messages_check")
    /\ CGoto(t, IF conversation_id[t] \in DOMAIN chat_database.messages
                THEN "messages_append" ELSE "messages_init")
    /\ UNCHANGED <<chat_database, keys, conversation_exists, resp>>

\* line 164: chat_database["messages"][conversation_id] = []
messages_init(t) ==
    /\ CAt(t, "messages_init")
    /\ chat_database' = [chat_database EXCEPT !.messages =
         [k \in DOMAIN @ \cup {conversation_id[t]} |->
            IF k = conversation_id[t] THEN <<>> ELSE @[k]]]
    /\ keys' = setitem(keys, conversation_id[t])
    /\ CGoto(t, "messages_append")
    /\ UNCHANGED <<conversation_exists, resp>>

\* line 166: chat_database["messages"][conversation_id].append(new_message)
messages_append(t) ==
    /\ CAt(t, "messages_append")
    /\ chat_database' = [chat_database EXCEPT !.messages[conversation_id[t]] =
                            Append(@, new_message[t])]
    /\ CGoto(t, "conversation_exists")
    /\ UNCHANGED <<keys, conversation_exists, resp>>

\* line 169: conversation_exists = any(conv["id"] == conversation_id for ...)
conversation_check(t) ==
    /\ CAt(t, "conversation_exists")
    /\ conversation_exists' = [conversation_exists EXCEPT ![t] =
                                  Positions(conversation_id[t]) # {}]
    /\ CGoto(t, IF Positions(conversation_id[t]) # {}
                THEN "conversations_update" ELSE "conversations_insert")
    /\ UNCHANGED <<chat_database, keys, resp>>

Created(t) == [status |-> 201, message |-> new_message[t],
               conversationId |-> conversation_id[t]]

\* (mutant) get-or-create: the record is prepended only if it is still missing
conversations_insert_if_missing(t) ==
    /\ CAt(t, "conversations_insert")
    /\ chat_database' =
         IF Positions(conversation_id[t]) # {} THEN chat_database
         ELSE [chat_database EXCEPT !.conversations =
                 <<[id |-> conversation_id[t], title |-> TitleOf(data[t].content),
                    lastMessage |-> data[t].content,
                    timestamp |-> new_message[t].timestamp, messageCount |-> 1]>> \o @]
    /\ resp' = [resp EXCEPT ![t] = Created(t)]
    /\ CGoto(t, "done")
    /\ UNCHANGED <<keys, conversation_exists>>

\* lines 171-180: chat_database["conversations"].insert(0, new_conversation),
\* then the 201 response
conversations_insert(t) ==
    /\ CAt(t, "conversations_insert")
    /\ chat_database' = [chat_database EXCEPT !.conversations =
         <<[id |-> conversation_id[t], title |-> TitleOf(data[t].content),
            lastMessage |-> data[t].content,
            timestamp |-> new_message[t].timestamp, messageCount |-> 1]>> \o @]
    /\ resp' = [resp EXCEPT ![t] = Created(t)]
    /\ CGoto(t, "done")
    /\ UNCHANGED <<keys, conversation_exists>>

\* GET /api/conversations
get_conversations ==
    [conversations |-> chat_database.conversations, status |-> "success"]

\* (mutant) the update leaves messageCount as it was
conversations_update_without_count(t) ==
    /\ CAt(t, "conversations_update")
    /\ chat_database' =
         IF Positions(conversation_id[t]) = {} THEN chat_database
         ELSE LET i == CHOOSE i \in Positions(conversation_id[t]) :
                          \A j \in Positions(conversation_id[t]) : i <= j
              IN [chat_database EXCEPT
                    !.conversations[i].lastMessage = data[t].content,
                    !.conversations[i].timestamp = new_message[t].timestamp]
    /\ resp' = [resp EXCEPT ![t] = Created(t)]
    /\ CGoto(t, "done")
    /\ UNCHANGED <<keys, conversation_exists>>

\* (mutant) the updated record is moved to the front of the list
conversations_update_to_front(t) ==
    /\ CAt(t, "conversations_update")
    /\ chat_database' =
         IF Positions(conversation_id[t]) = {} THEN chat_database
         ELSE LET i == CHOOSE i \in Positions(conversation_id[t]) :
                          \A j \in Positions(conversation_id[t]) : i <= j
                  old == chat_database.conversations
              IN [chat_database EXCEPT !.conversations =
                    <<[old[i] EXCEPT !.lastMessage = data[t].content,
                                     !.timestamp = new_message[t].timestamp,
                                     !.messageCount = @ + 1]>>
                    \o SubSeq(old, 1, i - 1) \o SubSeq(old, i + 1, Len(old))]
    /\ resp' = [resp EXCEPT ![t] = Created(t)]
    /\ CGoto(t, "done")
    /\ UNCHANGED <<keys, conversation_exists>>

\* lines 181-188: the first record with the id is updated in place, then the
\* 201 response
conversations_update(t) ==
    /\ CAt(t, "conversations_update")
    /\ chat_database' =
         IF Positions(conversation_id[t]) = {} THEN chat_database
         ELSE LET i == CHOOSE i \in Positions(conversation_id[t]) :
                          \A j \in Positions(conversation_id[t]) : i <= j
              IN [chat_database EXCEPT
                    !.conversations[i].lastMessage = data[t].content,
                    !.conversations[i].timestamp = new_message[t].timestamp,
                    !.conversations[i].messageCount = @ + 1]
    /\ resp' = [resp EXCEPT ![t] = Created(t)]
    /\ CGoto(t, "done")
    /\ UNCHANGED <<keys, conversation_exists>>

\* the response is sent; the thread is free again
create_message_return(t) ==
    /\ cpc[t] = "done"
    /\ cpc' = [cpc EXCEPT ![t] = "idle"]
    /\ data' = [data EXCEPT ![t] = NoBody]
    /\ conversation_id' = [conversation_id EXCEPT ![t] = ""]
    /\ new_message' = [new_message EXCEPT ![t] = NoMessage]
    /\ conversation_exists' = [conversation_exists EXCEPT ![t] = FALSE]
    /\ resp' = [resp EXCEPT ![t] = NoResp]
    /\ UNCHANGED <<chat_database, keys, uuid4, posts>>

\* ------------------------------------------------- GET /api/search
\* str.lower() on the letters the stored contents and the queries hold
Upper == <<"A", "B", "C", "D", "E", "F", "G", "H", "I", "J", "K", "L", "M",
           "N", "O", "P", "Q", "R", "S", "T", "U", "V", "W", "X", "Y", "Z">>
Lower == <<"a", "b", "c", "d", "e", "f", "g", "h", "i", "j", "k", "l", "m",
           "n", "o", "p", "q", "r", "s", "t", "u", "v", "w", "x", "y", "z">>
lower1(c) ==
    IF \E i \in DOMAIN Upper : Upper[i] = c
    THEN Lower[CHOOSE i \in DOMAIN Upper : Upper[i] = c] ELSE c
RECURSIVE lower(_)
lower(s) ==
    IF s = "" THEN "" ELSE lower1(SubSeq(s, 1, 1)) \o lower(SubSeq(s, 2, Len(s)))
\* str.strip(): leading and trailing whitespace is removed
Whitespace == {" ", "\t", "\n", "\r"}
RECURSIVE strip(_)
strip(s) ==
    IF s = "" THEN ""
    ELSE IF SubSeq(s, 1, 1) \in Whitespace THEN strip(SubSeq(s, 2, Len(s)))
    ELSE IF SubSeq(s, Len(s), Len(s)) \in Whitespace THEN strip(SubSeq(s, 1, Len(s) - 1))
    ELSE s
\* query in content: the substring test
contains(content, query) ==
    \E i \in 1..(Len(content) - Len(query) + 1) :
        SubSeq(content, i, i + Len(query) - 1) = query

\* (mutant) the content is compared as it is stored, not lowered
matches_case_sensitive(query, message) == contains(message.content, query)
\* line 288: if query in message["content"].lower(); lower() acts on each
\* character by itself, so the lowered content holds the query at a place
\* where each of its characters, lowered, is the query's
matches(query, message) ==
    LET content == message.content
    IN \E i \in 1..(Len(content) - Len(query) + 1) :
           \A k \in 1..Len(query) :
               lower1(SubSeq(content, i + k - 1, i + k - 1)) = SubSeq(query, k, k)

\* lines 279-283: the title of the first Conversation record with the id
conversation_title(cid) ==
    IF Positions(cid) = {} THEN "Unknown Conversation"
    ELSE chat_database.conversations[
             CHOOSE i \in Positions(cid) : \A j \in Positions(cid) : i <= j].title

\* lines 286-295: the matching messages of one conversation, in stored order
RECURSIVE results_of(_, _, _)
results_of(query, cid, i) ==
    IF i > Len(chat_database.messages[cid]) THEN << >>
    ELSE LET message == chat_database.messages[cid][i]
         IN (IF matches(query, message)
             THEN <<[conversationId |-> cid,
                     conversationTitle |-> conversation_title(cid),
                     messageId |-> message.id, content |-> message.content,
                     sender |-> message.sender, timestamp |-> message.timestamp]>>
             ELSE << >>) \o results_of(query, cid, i + 1)
\* lines 277-295: the conversations are visited in the dict's order
RECURSIVE results_from(_, _)
results_from(query, k) ==
    IF k > Len(keys) THEN << >>
    ELSE results_of(query, keys[k], 1) \o results_from(query, k + 1)

\* (mutant) the results are sorted oldest first
sort_oldest_first(results) ==
    LET before(i) == {j \in DOMAIN results :
                        \/ results[j].timestamp < results[i].timestamp
                        \/ results[j].timestamp = results[i].timestamp /\ j < i}
    IN [k \in DOMAIN results |->
          results[CHOOSE i \in DOMAIN results : Cardinality(before(i)) = k - 1]]
\* line 299: results.sort(key=lambda x: x["timestamp"], reverse=True), a
\* stable sort: a result stands after those of a later timestamp and after
\* those of its own timestamp that were found before it
sort_newest_first(results) ==
    LET before(i) == {j \in DOMAIN results :
                        \/ results[j].timestamp > results[i].timestamp
                        \/ results[j].timestamp = results[i].timestamp /\ j < i}
    IN [k \in DOMAIN results |->
          results[CHOOSE i \in DOMAIN results : Cardinality(before(i)) = k - 1]]

\* the values of the parameter q a client sends
Queries == {"MongoDB", "  hello ", "CHARACTERS", "", "   "}

\* search_messages, lines 270-306: the status and the JSON body answered
\* for a value of the parameter q
search_response(q) ==
    LET query == lower(strip(q))
    IN IF query = ""
       THEN [code |-> 200, body |-> [results |-> << >>, status |-> "success"]]
       ELSE LET results == sort_newest_first(results_from(query, 1))
            IN [code |-> 200,
                body |-> [results |-> results, query |-> query,
                          total |-> Len(results), status |-> "success"]]

\* search_messages: GET /api/search?q=...
search_messages ==
    /\ \A t \in Threads : cpc[t] = "idle"
    /\ \E q \in Queries :
         LET response == search_response(q)
         IN reply' = [endpoint |-> "search", q |-> q,
                      code |-> response.code, body |-> response.body]
    /\ UNCHANGED <<hvars, cvars, kvars>>

\* ------------------------------------------- GeminiService.get_response
\* the docstring's modes, those of api_keys, system_prompts and
\* fallback_responses
KnownModes == {"math", "english", "history", "general"}
\* a mode that is no string but a JSON array, which no dict takes as a key
ListMode == "<a JSON array>"
Modes == KnownModes \cup {"science", "MATH", ListMode}
Messages == {"What is 2+2?", "technical"}
\* what the calls to the generation service inside the try block do: they
\* return a text, or one of them raises
Upstream == {"text", "generate_content raises", "response.text raises"}
Generated == {" 4 ", "Four."}
GenericFallback == "I'm having technical difficulties. Please try again later."
\* (mutant) the general fallback does not echo the message
fallback_responses_forgetful(user_message) ==
    [mode \in KnownModes |->
       CASE mode = "math" ->
              "I apologize, but I'm having trouble accessing the math tutoring system right now. However, I'd be happy to help you with your math question: '"
              \o user_message \o "'. Could you please try again in a moment?"
         [] mode = "english" ->
              "I'm experiencing some technical difficulties with the English teaching system. Your question about '"
              \o user_message \o "' is important to me. Please try again shortly."
         [] mode = "history" ->
              "I'm having trouble accessing the history teaching resources at the moment. Your question about '"
              \o user_message \o "' deserves a proper historical perspective. Please try again soon."
         [] mode = "general" ->
              "I'm experiencing some technical issues right now. Please try again in a moment."]
\* lines 100-105: the dict fallback_responses
fallback_responses(user_message) ==
    [mode \in KnownModes |->
       CASE mode = "math" ->
              "I apologize, but I'm having trouble accessing the math tutoring system right now. However, I'd be happy to help you with your math question: '"
              \o user_message \o "'. Could you please try again in a moment?"
         [] mode = "english" ->
              "I'm experiencing some technical difficulties with the English teaching system. Your question about '"
              \o user_message \o "' is important to me. Please try again shortly."
         [] mode = "history" ->
              "I'm having trouble accessing the history teaching resources at the moment. Your question about '"
              \o user_message \o "' deserves a proper historical perspective. Please try again soon."
         [] mode = "general" ->
              "I'm experiencing some technical issues right now, but I want to help you with '"
              \o user_message \o "'. Please try again in a moment."]
\* what a call leaves to its caller: a returned string or an exception
Returned(value) == [raised |-> FALSE, value |-> value]
Raised(error) == [raised |-> TRUE, value |-> error]
\* (mutant) an upstream failure is not caught
get_response_uncaught(user_message, mode, upstream, generated) ==
    IF mode = ListMode THEN Raised("TypeError")
    ELSE IF upstream = "text" THEN Returned(strip(generated))
    ELSE Raised(upstream)
\* get_response, lines 68-106. Line 70 looks the mode up in a dict, which
\* raises TypeError for a mode that cannot be a key; this and every failure
\* of the upstream calls is caught at line 97, and line 106 looks the mode up
\* in fallback_responses, outside any try block.
get_response(user_message, mode, upstream, generated) ==
    IF mode # ListMode /\ upstream = "text"
    THEN Returned(strip(generated))
    ELSE IF mode = ListMode THEN Raised("TypeError")
    ELSE IF mode \in KnownModes THEN Returned(fallback_responses(user_message)[mode])
    ELSE Returned(GenericFallback)

\* system_prompts, lines 16-55, each text on one line
system_prompts ==
    [mode \in KnownModes |->
       CASE mode = "math" ->
              "You are N0b0dy, an expert mathematics tutor. Your role is to:\n- Help students understand mathematical concepts step by step\n- Provide clear explanations with examples\n- Break down complex problems into manageable steps\n- Use appropriate mathematical notation and terminology\n- Encourage learning and build confidence\n- Always show your work and explain your reasoning\n- Be patient and supportive in your teaching approach"
         [] mode = "english" ->
              "You are N0b0dy, an expert English language teacher. Your role is to:\n- Help students improve their English language skills\n- Explain grammar rules clearly with examples\n- Provide vocabulary definitions and usage examples\n- Help with pronunciation, writing, and communication\n- Correct mistakes gently and explain why\n- Encourage practice and provide constructive feedback\n- Use appropriate teaching methods for different skill levels\n- Be encouraging and supportive in your approach"
         [] mode = "history" ->
              "You are N0b0dy, an expert history teacher. Your role is to:\n- Help students understand historical events and their significance\n- Provide context and background information\n- Explain cause-and-effect relationships in history\n- Discuss different perspectives and interpretations\n- Connect historical events to modern times\n- Use engaging storytelling techniques\n- Encourage critical thinking about historical sources\n- Make history relevant and interesting for students"
         [] mode = "general" ->
              "You are N0b0dy, a helpful AI assistant. Your role is to:\n- Provide accurate and helpful information\n- Answer questions clearly and comprehensively\n- Be friendly and approachable in your responses\n- Offer practical advice and solutions\n- Maintain a professional yet conversational tone\n- Help users with a wide variety of topics\n- Be honest about limitations when you don't know something"]
\* the conversation_history a caller passes: up to MaxHistory turns, of
\* three senders in turn, each turn of a content of its own
MaxHistory == 12
Senders == <<"user", "assistant", "system">>
Histories ==
    {[i \in 1..n |-> [sender |-> Senders[((i + k) % 3) + 1],
                      content |-> "turn " \o ToString(i)]] :
        n \in 0..MaxHistory, k \in 0..2}
\* (mutant) the first ten turns: conversation_history[:10]
last_ten_from_front(conversation_history) ==
    SubSeq(conversation_history, 1,
           IF Len(conversation_history) > 10 THEN 10 ELSE Len(conversation_history))
\* line 83: conversation_history[-10:]
last_ten(conversation_history) ==
    SubSeq(conversation_history,
           IF Len(conversation_history) > 10 THEN Len(conversation_history) - 9 ELSE 1,
           Len(conversation_history))
\* lines 84-85: one line of the context
history_line(msg) ==
    (IF msg.sender = "user" THEN "User" ELSE "N0b0dy") \o ": " \o msg.content
\* lines 76-93: the text handed to model.generate_content, as the sequence
\* of the lines that "\n" separates (a system prompt counts as one)
prompt_lines(user_message, mode, conversation_history) ==
    LET system_prompt == IF mode \in KnownModes THEN system_prompts[mode]
                         ELSE system_prompts["general"]
        turns == last_ten(conversation_history)
    IN IF Len(conversation_history) > 0
       THEN <<system_prompt, "", "Conversation History:">>
            \o [j \in DOMAIN turns |-> history_line(turns[j])]
            \o <<"", "Current User Message: " \o user_message>>
       ELSE <<system_prompt, "", "User: " \o user_message, "N0b0dy:">>
\* get_response is called, and reaches model.generate_content with a text
generate_content ==
    /\ \E user_message \in Messages, mode \in Modes \ {ListMode},
          conversation_history \in Histories :
         reply' = [endpoint |-> "generate_content", user_message |-> user_message,
                   mode |-> mode, conversation_history |-> conversation_history,
                   prompt |-> prompt_lines(user_message, mode, conversation_history)]
    /\ UNCHANGED <<hvars, cvars, kvars>>

\* --------------------------------------------- GeminiService.test_api_key
\* what the smoke-test call inside the try block does: one of its calls
\* raises, or response.text is None, or it is a string, which may be empty
SmokeRaises == {"generate_content raises", "response.text raises"}
NoneText == "<None>"
SmokeTexts == {"Hello!", ""}
Smoke == SmokeRaises \cup {NoneText} \cup SmokeTexts
\* (mutant) the text is tested for truth: return bool(response.text)
test_api_key_truthy(mode, smoke) ==
    IF mode = ListMode \/ smoke \in SmokeRaises THEN Returned(FALSE)
    ELSE Returned(smoke # NoneText /\ smoke # "")
\* test_api_key, lines 108-129: line 126 returns response.text is not None;
\* every exception of the try block, the TypeError of line 120 for a mode
\* that cannot be a key too, is caught at line 128 and answered False
test_api_key(mode, smoke) ==
    IF mode = ListMode \/ smoke \in SmokeRaises THEN Returned(FALSE)
    ELSE Returned(smoke # NoneText)
\* test_gemini, app.py lines 254-265: GET /api/test-gemini tests the four
\* modes, outside any try block
test_gemini ==
    /\ \E smoke \in [KnownModes -> Smoke] :
         LET results == [mode \in KnownModes |-> test_api_key(mode, smoke[mode])]
         IN reply' =
              IF \E mode \in KnownModes : results[mode].raised
              THEN [endpoint |-> "test-gemini", smoke |-> smoke, code |-> 500,
                    body |-> [error |-> "Internal Server Error"]]
              ELSE [endpoint |-> "test-gemini", smoke |-> smoke, code |-> 200,
                    body |-> [api_tests |-> [mode \in KnownModes |-> results[mode].value],
                              status |-> "success"]]
    /\ UNCHANGED <<hvars, cvars, kvars>>

\* ------------------------------------------------ POST /api/ai-response
AIBodies ==
    {NoBody}
    \cup [message : {Absent, ""} \cup Messages, mode : {Absent, ""} \cup Modes,
          conversationId : {Absent, "conv_001"}, json : {TRUE}]
\* line 221: not data or not data.get('message') or not data.get('mode')
ai_invalid(body) ==
    \/ ~body.json
    \/ body.message \in {Absent, ""}
    \/ body.mode \in {Absent, ""}
\* get_ai_response, lines 216-252
get_ai_response ==
    \E body \in AIBodies, upstream \in Upstream, generated \in Generated :
        /\ upstream # "text" => generated = "Four."
        /\ reply' =
             IF ai_invalid(body)
             THEN [endpoint |-> "ai-response", data |-> body, upstream |-> "none",
                   code |-> 400, body |-> [error |-> "message and mode are required"]]
             ELSE LET ai_response == get_response(body.message, body.mode, upstream, generated)
                  IN IF ai_response.raised
                     THEN [endpoint |-> "ai-response", data |-> body, upstream |-> upstream,
                           code |-> 500,
                           body |-> [error |-> "Failed to get AI response", status |-> "error"]]
                     ELSE [endpoint |-> "ai-response", data |-> body, upstream |-> upstream,
                           code |-> 200,
                           body |-> [response |-> ai_response.value, mode |-> body.mode,
                                     status |-> "success"]]
        /\ UNCHANGED <<hvars, cvars, kvars>>

\* ------------------------------------------------- the GET endpoints
\* the values of the parameter conversationId and of the path's
\* <conversation_id>: a seeded conversation with messages, a seeded one
\* without, one a POST may have made, and one nobody made
UnseenId == "conv_999"
PathIds == {"conv_001", "conv_003", "c1", UnseenId}
ArgIds == {Absent, ""} \cup PathIds

\* GET /api/conversations, lines 120-126
serve_conversations ==
    /\ reply' = [endpoint |-> "conversations", code |-> 200, body |-> get_conversations]
    /\ UNCHANGED <<hvars, cvars, kvars>>

\* (mutant) the lookup is setdefault(conversation_id, []), which stores
\* the empty list it answers
get_messages_setdefault ==
    \E cid \in ArgIds :
        /\ reply' =
             IF cid \in {Absent, ""}
             THEN [endpoint |-> "messages", conversationId |-> cid, code |-> 400,
                   body |-> [error |-> "conversationId is required"]]
             ELSE [endpoint |-> "messages", conversationId |-> cid, code |-> 200,
                   body |-> [messages |-> messages_get(cid), conversationId |-> cid,
                             status |-> "success"]]
        /\ IF cid \in {Absent, ""} \/ cid \in DOMAIN chat_database.messages
           THEN UNCHANGED <<chat_database, keys>>
           ELSE /\ chat_database' =
                     [chat_database EXCEPT !.messages =
                        [k \in DOMAIN @ \cup {cid} |-> IF k = cid THEN << >> ELSE @[k]]]
                /\ keys' = setitem(keys, cid)
        /\ UNCHANGED <<uuid4, posts, cpc, data, conversation_id, new_message,
                       conversation_exists, resp>>
        /\ UNCHANGED <<hvars, kvars>>
\* get_messages, lines 128-142: GET /api/messages?conversationId=...
get_messages ==
    \E cid \in ArgIds :
        /\ reply' =
             IF cid \in {Absent, ""}
             THEN [endpoint |-> "messages", conversationId |-> cid, code |-> 400,
                   body |-> [error |-> "conversationId is required"]]
             ELSE [endpoint |-> "messages", conversationId |-> cid, code |-> 200,
                   body |-> [messages |-> messages_get(cid), conversationId |-> cid,
                             status |-> "success"]]
        /\ UNCHANGED <<hvars, cvars, kvars>>

\* get_conversation_details, lines 196-214: GET /api/conversation/<id>
get_conversation_details ==
    \E cid \in PathIds :
        /\ reply' =
             IF Positions(cid) = {}
             THEN [endpoint |-> "conversation", conversationId |-> cid, code |-> 404,
                   body |-> [error |-> "Conversation not found"]]
             ELSE LET i == CHOOSE i \in Positions(cid) : \A j \in Positions(cid) : i <= j
                  IN [endpoint |-> "conversation", conversationId |-> cid, code |-> 200,
                      body |-> [conversation |-> chat_database.conversations[i],
                                messages |-> messages_get(cid), status |-> "success"]]
        /\ UNCHANGED <<hvars, cvars, kvars>>

\* sum(len(msgs) for msgs in chat_database["messages"].values()), over the
\* first n keys
RECURSIVE total_messages(_)
total_messages(n) ==
    IF n = 0 THEN 0 ELSE total_messages(n - 1) + Len(chat_database.messages[keys[n]])
\* health_check, lines 308-316: GET /api/health; the timestamp it adds is
\* the wall clock's, which is no part of the state
health_check ==
    /\ reply' = [endpoint |-> "health", code |-> 200,
                 body |-> [status |-> "healthy",
                           total_conversations |-> Len(chat_database.conversations),
                           total_messages |-> total_messages(Len(keys))]]
    /\ UNCHANGED <<hvars, cvars, kvars>>

\* the response is sent and the request is over
send_response ==
    /\ reply # NoReply
    /\ reply' = NoReply
    /\ UNCHANGED <<hvars, cvars, kvars>>

\* ------------------------------------- DocumentVectorizer._chunk_text
\* the characters of a text: one that str.strip() keeps and one it removes
Chars == {"a", " "}
MaxLen == 4     \* the longest text
MaxSize == 3    \* the largest chunk_size
Documents == UNION {[1..n -> Chars] : n \in 0..MaxLen}
\* the place in s a slice index stands for: one below 0 counts from the end,
\* and what falls outside s is brought back to its ends
index(s, i) ==
    IF i < 0 THEN (IF i + Len(s) < 0 THEN 0 ELSE i + Len(s))
    ELSE (IF i > Len(s) THEN Len(s) ELSE i)
\* text[start:end]
slice(s, from, to) == SubSeq(s, index(s, from) + 1, index(s, to))
\* The loop need not end, so the model follows the list up to MaxChunks
\* chunks, and start down to Floor: at Floor and below, every window of a
\* text of at most MaxLen characters is empty.
MaxChunks == MaxLen + 2
Floor == 0 - (MaxLen + MaxSize)
append(cs, chunk) == IF Len(cs) < MaxChunks THEN Append(cs, chunk) ELSE cs
advance(s, step) == IF s + step < Floor THEN Floor ELSE s + step
\* chunk.strip() is not the empty string
strip_nonempty(chunk) == \E i \in DOMAIN chunk : chunk[i] \notin Whitespace

\* _chunk_text(text, chunk_size, chunk_overlap) is called, with any
\* chunk_size >= 1 and chunk_overlap >= 0: the arguments are not checked;
\* lines 188-189
chunk_text ==
    /\ kpc \in {"idle", "done"}
    /\ \E d \in Documents, w \in 1..MaxSize :
         \E o \in 0..MaxSize :
             /\ text' = d
             /\ chunk_size' = w
             /\ chunk_overlap' = o
    /\ start' = 0
    /\ chunks' = << >>
    /\ kpc' = "while"
    /\ UNCHANGED <<hvars, cvars, gvars>>

\* (mutant) the window moves on by chunk_size, the overlap forgotten
chunk_text_while_no_overlap ==
    /\ kpc = "while"
    /\ start < Len(text)
    /\ LET end == start + chunk_size
           chunk == slice(text, start, end)
       IN chunks' = IF strip_nonempty(chunk) THEN append(chunks, chunk) ELSE chunks
    /\ start' = advance(start, chunk_size)
    /\ UNCHANGED <<text, chunk_size, chunk_overlap, kpc>>
    /\ UNCHANGED <<hvars, cvars, gvars>>

\* lines 191-198: one turn of the loop
chunk_text_while ==
    /\ kpc = "while"
    /\ start < Len(text)
    /\ LET end == start + chunk_size
           chunk == slice(text, start, end)
       IN chunks' = IF strip_nonempty(chunk) THEN append(chunks, chunk) ELSE chunks
    /\ start' = advance(start, chunk_size - chunk_overlap)
    /\ UNCHANGED <<text, chunk_size, chunk_overlap, kpc>>
    /\ UNCHANGED <<hvars, cvars, gvars>>

\* lines 191 and 200: the loop ends and chunks is returned
chunk_text_return ==
    /\ kpc = "while"
    /\ ~(start < Len(text))
    /\ kpc' = "done"
    /\ UNCHANGED <<text, chunk_size, chunk_overlap, start, chunks>>
    /\ UNCHANGED <<hvars, cvars, gvars>>

\* ------------------------------------------------------ specifications
\* One request at a time: the handler steps only while every other one is
\* idle, and the collections are remembered from the beginning of each
\* request to its end.
Alone(p) == \A q \in Procs \ {p} : pc[q] = "idle" /\ ~down[q]
Remember(p) == pre' = IF pc[p] = "idle" THEN Snapshot
                      ELSE IF pc'[p] = "idle" THEN NoPre ELSE pre
Serial(p, A) == Alone(p) /\ A /\ Remember(p) /\ UNCHANGED <<cvars, gvars, kvars>>
\* the handler that serves the requests when they come one at a time
First == CHOOSE p \in Procs : \A q \in Procs : p <= q
\* Requests interleave freely, storage call by storage call.
Free(A) == A /\ UNCHANGED pre /\ UNCHANGED <<cvars, gvars, kvars>>

\* Spec: concurrent create and delete requests, storage call by storage call
Next ==
    \E p \in Procs :
        \/ Free(create_title(p))
        \/ Free(delete_title(p))
        \/ Free(TitleDB_delete(p))
        \/ Free(ChatDB_delete_by_title(p))
        \/ Free(ChatDB_delete_by_title_contexts(p))
        \/ Free(ChatDB_delete_by_title_chats(p))
        \/ Free(create_chat(p))
        \/ Free(ChatDB_create(p))
        \/ Free(ChatDB_create_update(p))
        \/ Free(delete_chat(p))
        \/ Free(ChatDB_delete(p))
        \/ Free(ChatDB_delete_contexts(p))
        \/ Free(create_context(p))
        \/ Free(ContextDB_create(p))
        \/ Free(ContextDB_create_get(p))
        \/ Free(ContextDB_create_update(p))
        \/ Free(delete_context(p))
        \/ Free(ContextDB_delete(p))
        \/ Free(Respond(p))

Spec == Init /\ [][Next]_vars

Creates(p) ==
    \/ Serial(p, create_title(p))
    \/ Serial(p, create_chat(p))
    \/ Serial(p, ChatDB_create(p))
    \/ Serial(p, ChatDB_create_update(p))
    \/ Serial(p, create_context(p))
    \/ Serial(p, ContextDB_create(p))
    \/ Serial(p, ContextDB_create_get(p))
    \/ Serial(p, ContextDB_create_update(p))
    \/ Serial(p, Respond(p))

Cascades(p) ==
    \/ Serial(p, delete_title(p))
    \/ Serial(p, TitleDB_delete(p))
    \/ Serial(p, ChatDB_delete_by_title(p))
    \/ Serial(p, ChatDB_delete_by_title_contexts(p))
    \/ Serial(p, ChatDB_delete_by_title_chats(p))
    \/ Serial(p, delete_chat(p))
    \/ Serial(p, ChatDB_delete(p))
    \/ Serial(p, ChatDB_delete_contexts(p))

Deletes(p) ==
    \/ Cascades(p)
    \/ Serial(p, delete_context(p))
    \/ Serial(p, ContextDB_delete(p))

Updates(p) ==
    \/ Serial(p, update_context(p))
    \/ Serial(p, ContextDB_update(p))
    \/ Serial(p, update_context_get(p))

Reads(p) ==
    \/ Serial(p, get_title_by_id(p))
    \/ Serial(p, get_chats_by_title(p))
    \/ Serial(p, get_chats_by_title_find(p))
    \/ Serial(p, get_chat_by_id(p))
    \/ Serial(p, get_contexts_by_chat(p))
    \/ Serial(p, get_contexts_by_chat_find(p))
    \/ Serial(p, get_context_by_id(p))

\* SpecSeq: create and delete requests, one at a time
NextSeq == Creates(First) \/ Deletes(First)

SpecSeq == Init /\ [][NextSeq]_vars

\* SpecTime: create requests, one at a time, under a running clock
NextTime == Free(Tick) \/ Creates(First)

SpecTime == Init /\ [][NextTime]_vars

\* SpecUpdate: create and update requests, one at a time, under a running
\* clock
NextUpdate == Free(Tick) \/ Creates(First) \/ Updates(First)

SpecUpdate == Init /\ [][NextUpdate]_vars

\* the server is killed between two storage calls of the request in flight,
\* and restarted
Crashes(p) ==
    \/ Serial(p, Crash(p))
    \/ Serial(p, Restart(p))

\* SpecCrash: create and delete requests, one at a time, on a server that
\* may be killed between two storage calls and restarted
NextCrash == Creates(First) \/ Deletes(First) \/ Crashes(First)

SpecCrash == Init /\ [][NextCrash]_vars

\* SpecRead: reads, one request at a time, of what creates and interrupted
\* cascading deletes leave in the collections
NextRead == Creates(First) \/ Cascades(First) \/ Crashes(First) \/ Reads(First)

SpecRead == Init /\ [][NextRead]_vars

\* SpecConv: concurrent POST /api/messages requests on the threaded server,
\* statement by statement
NextConv ==
    \E t \in Threads :
        \/ create_message(t) /\ UNCHANGED <<hvars, gvars, kvars>>
        \/ messages_check(t) /\ UNCHANGED <<hvars, gvars, kvars>>
        \/ messages_init(t) /\ UNCHANGED <<hvars, gvars, kvars>>
        \/ messages_append(t) /\ UNCHANGED <<hvars, gvars, kvars>>
        \/ conversation_check(t) /\ UNCHANGED <<hvars, gvars, kvars>>
        \/ conversations_insert(t) /\ UNCHANGED <<hvars, gvars, kvars>>
        \/ conversations_update(t) /\ UNCHANGED <<hvars, gvars, kvars>>
        \/ create_message_return(t) /\ UNCHANGED <<hvars, gvars, kvars>>

SpecConv == Init /\ [][NextConv]_vars

\* SpecConvSeq: POST /api/messages requests, one at a time
OneAtATime(t, A) ==
    /\ \A u \in Threads \ {t} : cpc[u] = "idle"
    /\ A
    /\ UNCHANGED <<hvars, gvars, kvars>>
NextConvSeq ==
    \/ OneAtATime(First, create_message(First))
    \/ OneAtATime(First, messages_check(First))
    \/ OneAtATime(First, messages_init(First))
    \/ OneAtATime(First, messages_append(First))
    \/ OneAtATime(First, conversation_check(First))
    \/ OneAtATime(First, conversations_insert(First))
    \/ OneAtATime(First, conversations_update(First))
    \/ OneAtATime(First, create_message_return(First))

SpecConvSeq == Init /\ [][NextConvSeq]_vars

\* SpecGet: the read-only endpoints of app.py between POST /api/messages
\* requests served one at a time
NextGet ==
    \/ NextConvSeq
    \/ search_messages

SpecGet == Init /\ [][NextGet]_vars

\* SpecReads: every endpoint of app.py that answers without storing, between
\* POST /api/messages requests, the requests served one at a time
Request(A) ==
    /\ reply = NoReply
    /\ \A t \in Threads : cpc[t] = "idle"
    /\ A
NextReads ==
    \/ reply = NoReply /\ NextConvSeq
    \/ Request(serve_conversations)
    \/ Request(get_messages)
    \/ Request(get_conversation_details)
    \/ Request(search_messages)
    \/ Request(health_check)
    \/ Request(get_ai_response)
    \/ send_response
SpecReads == Init /\ [][NextReads]_vars

\* the calls of _chunk_text
NextChunk ==
    \/ chunk_text
    \/ chunk_text_while
    \/ chunk_text_return
SpecChunk == Init /\ [][NextChunk]_vars
\* a call that has begun goes on running: the interpreter takes the next
\* turn of the loop, or leaves it, whenever it can
SpecChunkFair ==
    SpecChunk /\ WF_vars(chunk_text_while) /\ WF_vars(chunk_text_return)

\* the requests for an AI response
NextAI ==
    \/ get_ai_response
    \/ test_gemini
    \/ generate_content
SpecAI == Init /\ [][NextAI]_vars

\* ------------------------------------------------------------- claims
\* what a finished request is and what it was asked
Done(p, op) == pc[p] = "done" /\ ~down[p] /\ req[p].op = op
Ok(p, op)   == Done(p, op) /\ ret[p].status = 200
ids(coll, field) == {d[field] : d \in coll}
\* the store as the request in flight found it
preStore == <<pre.Title, pre.Chat, pre.Context>>
\* the Chats a Title owned, by id, in a Chat collection
chatsOf(chats, id_title) == ids(find(chats, "id_title", id_title), "id_chat")
\* every Chat references an existing Title, every Context an existing Chat
Referential ==
    /\ \A c \in Chat : TitleDB_get_by_id(c.id_title) # {}
    /\ \A x \in Context : ChatDB_get_by_id(x.id_chat) # {}
Quiescent == \A p \in Procs : pc[p] \in {"idle", "done"} /\ ~down[p]

\* C1: after a Title T, Chats under T and Contexts under those Chats were
\* created, a completed delete(T) leaves no Chat with id_title = T and no
\* Context whose id_chat is one of T's Chats.
C1_DeleteTitleCascades ==
    \A p \in Procs :
        Ok(p, "delete_title") =>
            /\ ChatDB_get_by_title(req[p].id) = {}
            /\ \A x \in Context : x.id_chat \notin chatsOf(pre.Chat, req[p].id)

\* a delete(T) completed on a Title that owned two Chats, each with a Context
C1_Witness ==
    \E p \in Procs :
        /\ Ok(p, "delete_title")
        /\ Cardinality(chatsOf(pre.Chat, req[p].id)) >= 2
        /\ \A c \in chatsOf(pre.Chat, req[p].id) : find(pre.Context, "id_chat", c) # {}

\* C2: in every state in which no request is in progress, whatever the
\* interleaving of the concurrent create and delete requests, every Chat
\* references an existing Title and every Context an existing Chat.
C2_ReferentialIntegrity == Quiescent => Referential

\* C3 (as claimed): in every intermediate state of a delete(title) in which
\* the Title row is already absent, no Chat with that id_title and no Context
\* of such a Chat remains.
DeleteTitleCascade ==
    {"ChatDB_delete_by_title", "ChatDB_delete_by_title_contexts",
     "ChatDB_delete_by_title_chats"}
C3_DescendantsFirst ==
    \A p \in Procs :
        (/\ req[p].op = "delete_title"
         /\ pc[p] \in {"TitleDB_delete"} \cup DeleteTitleCascade
         /\ TitleDB_get_by_id(req[p].id) = {})
        => /\ ChatDB_get_by_title(req[p].id) = {}
           /\ \A x \in Context : x.id_chat \notin chatsOf(pre.Chat, req[p].id)

\* C3 (amended): delete(title) removes the Title row first and the Chats
\* last: in every intermediate state of its cascade the Title row is absent
\* and the Chats are all still there, and by the time the Chats are about to
\* be removed no Context of them remains.
C3_TitleRowFirst ==
    \A p \in Procs :
        (req[p].op = "delete_title" /\ pc[p] \in DeleteTitleCascade) =>
            /\ TitleDB_get_by_id(req[p].id) = {}
            /\ find(pre.Title, "id_title", req[p].id) # {}
            /\ Chat = pre.Chat
            /\ pc[p] = "ChatDB_delete_by_title_chats" =>
                 \A x \in Context : x.id_chat \notin chatsOf(pre.Chat, req[p].id)

\* a delete(title) in mid-cascade: the row is gone, a Chat of the Title and a
\* Context of that Chat are still stored
C3_Witness ==
    \E p \in Procs :
        /\ req[p].op = "delete_title" /\ pc[p] = "ChatDB_delete_by_title_contexts"
        /\ \E c \in ChatDB_get_by_title(req[p].id) : ContextDB_get_by_chat(c.id_chat) # {}

\* C4: a completed delete(chat C) on an existing Chat leaves no Context with
\* id_chat = C, and leaves the Titles, the other Chats and the Contexts of
\* the other Chats in place.
C4_DeleteChatCascades ==
    \A p \in Procs :
        Ok(p, "delete_chat") =>
            /\ find(pre.Chat, "id_chat", req[p].id) # {}
            /\ ContextDB_get_by_chat(req[p].id) = {}
            /\ Title = pre.Title
            /\ Chat = delete_many(pre.Chat, "id_chat", req[p].id)
            /\ Context = delete_many(pre.Context, "id_chat", req[p].id)

\* a delete(chat) completed where the Chat had a Context and another Chat,
\* with a Context of its own, was stored
C4_Witness ==
    \E p \in Procs :
        /\ Ok(p, "delete_chat")
        /\ find(pre.Context, "id_chat", req[p].id) # {}
        /\ \E c \in Chat : ContextDB_get_by_chat(c.id_chat) # {}

\* C5: a cascade interrupted by a crash between two of its storage calls
\* leaves a partial state: (a) an interrupted delete(chat) has removed the
\* Chat and left every Context of it; (b) an interrupted delete(title) has
\* removed the Title and left every Chat with its id_title.
C5_InterruptedCascade ==
    /\ \A p \in Procs :
         (down[p] /\ pc[p] = "ContextDB_delete_by_chat") =>
             /\ ChatDB_get_by_id(req[p].id) = {}
             /\ find(pre.Chat, "id_chat", req[p].id) # {}
             /\ ContextDB_get_by_chat(req[p].id) = find(pre.Context, "id_chat", req[p].id)
    /\ \A p \in Procs :
         (down[p] /\ pc[p] \in DeleteTitleCascade) =>
             /\ TitleDB_get_by_id(req[p].id) = {}
             /\ find(pre.Title, "id_title", req[p].id) # {}
             /\ ChatDB_get_by_title(req[p].id) = find(pre.Chat, "id_title", req[p].id)

\* both partial states at once: a delete(title) was interrupted after its
\* delete_one and Chats of the Title are still stored, next to a Context
\* whose Chat an interrupted delete(chat) removed earlier
C5_Witness ==
    \E p \in Procs :
        /\ down[p] /\ pc[p] = "ChatDB_delete_by_title"
        /\ ChatDB_get_by_title(req[p].id) # {}
        /\ \E x \in Context : ChatDB_get_by_id(x.id_chat) = {}

\* C6 (as claimed): no read returns a Context whose parent Chat does not
\* exist or a Chat whose parent Title does not exist.
ReadsOfChats    == {"get_chat_by_id", "get_chats_by_title"}
ReadsOfContexts == {"get_context_by_id", "get_contexts_by_chat"}
C6_NoOrphanObserved ==
    \A p \in Procs :
        (pc[p] = "done" /\ ret[p].status = 200) =>
            /\ req[p].op \in ReadsOfChats =>
                 \A c \in ret[p].data : TitleDB_get_by_id(c.id_title) # {}
            /\ req[p].op \in ReadsOfContexts =>
                 \A x \in ret[p].data : ChatDB_get_by_id(x.id_chat) # {}

\* C6 (amended): only the two list reads look the parent up first:
\* get_chats_by_title(T) answers the Chats of T and only under an existing
\* Title T, get_contexts_by_chat(C) the Contexts of C and only under an
\* existing Chat C. get_chat_by_id and get_context_by_id answer the record
\* stored under the id, whether or not its parent exists.
C6_ListReadsTopDown ==
    \A p \in Procs :
        /\ Ok(p, "get_chats_by_title") =>
             /\ TitleDB_get_by_id(req[p].id) # {}
             /\ ret[p].data = ChatDB_get_by_title(req[p].id)
        /\ Ok(p, "get_contexts_by_chat") =>
             /\ ChatDB_get_by_id(req[p].id) # {}
             /\ ret[p].data = ContextDB_get_by_chat(req[p].id)
        /\ Done(p, "get_chat_by_id") =>
             /\ ret[p].data = ChatDB_get_by_id(req[p].id)
             /\ ret[p].status = IF ret[p].data = {} THEN 404 ELSE 200
        /\ Done(p, "get_context_by_id") =>
             /\ ret[p].data = ContextDB_get_by_id(req[p].id)
             /\ ret[p].status = IF ret[p].data = {} THEN 404 ELSE 200

\* get_contexts_by_chat answered 404 for a Chat that an interrupted
\* delete(chat) removed and whose Contexts are still stored
C6_Witness ==
    \E p \in Procs :
        /\ Done(p, "get_contexts_by_chat") /\ ret[p].status = 404
        /\ ContextDB_get_by_chat(req[p].id) # {}

\* the Title collection `titles` with the last_update of Title id_title set
\* to t and nothing else changed
Touched(titles, id_title, t) ==
    {IF d.id_title = id_title THEN [d EXCEPT !.last_update = t] ELSE d : d \in titles}

\* C7: creating a Chat under an existing Title, and creating a Context under
\* an existing Chat, inserts the new entity and sets the ancestor Title's
\* last_update to a clock reading taken during the creation (not before the
\* entity's own create_at); no other field of the Title and no other Title
\* is changed.
C7_CreateTouchesTitle ==
    \A p \in Procs :
        /\ Ok(p, "create_chat") =>
             \E c \in ret[p].data :
                 /\ ret[p].data = {c} /\ c.id_title = req[p].id
                 /\ c \notin pre.Chat /\ Chat = pre.Chat \cup {c}
                 /\ Context = pre.Context
                 /\ find(pre.Title, "id_title", c.id_title) # {}
                 /\ \E t \in c.create_at..now : Title = Touched(pre.Title, c.id_title, t)
        /\ Ok(p, "create_context") =>
             \E x \in ret[p].data :
                 /\ ret[p].data = {x} /\ x.id_chat = req[p].id
                 /\ x \notin pre.Context /\ Context = pre.Context \cup {x}
                 /\ Chat = pre.Chat
                 /\ \E c \in find(pre.Chat, "id_chat", x.id_chat) :
                      /\ find(pre.Title, "id_title", c.id_title) # {}
                      /\ \E t \in x.create_at..now :
                           Title = Touched(pre.Title, c.id_title, t)

\* a Context was created under a Chat whose Title was last updated earlier,
\* while a second Title is stored
C7_Witness ==
    \E p \in Procs :
        /\ Ok(p, "create_context")
        /\ Cardinality(Title) >= 2
        /\ \E c \in ChatDB_get_by_id(req[p].id) :
             /\ \E d \in find(pre.Title, "id_title", c.id_title) : d.last_update < pre.now
             /\ \E d \in TitleDB_get_by_id(c.id_title) : d.last_update >= pre.now

\* C8: updating an existing Context bumps the last_update of the Title that
\* owns the Context's Chat, exactly as creating a Context does: after the
\* update that last_update is a clock reading taken during the update.
C8_UpdateTouchesTitle ==
    \A p \in Procs :
        Ok(p, "update_context") =>
            \A x \in ContextDB_get_by_id(req[p].id) :
                \A c \in ChatDB_get_by_id(x.id_chat) :
                    \A d \in TitleDB_get_by_id(c.id_title) :
                        d.last_update \in pre.now..now

\* C9: delete(title) reports success exactly when this call removed the
\* Title row; for an id with no Title row it answers 404, performs no
\* cascade and leaves the Title, Chat and Context collections unchanged.
C9_DeleteTitleResult ==
    \A p \in Procs :
        Done(p, "delete_title") =>
            /\ ret[p].status = 200 <=>
                 (find(pre.Title, "id_title", req[p].id) # {}
                  /\ TitleDB_get_by_id(req[p].id) = {})
            /\ find(pre.Title, "id_title", req[p].id) = {} =>
                 (ret[p].status = 404 /\ store = preStore)

\* delete(title) answered 404 for an id whose Title an earlier delete
\* removed, while Titles, Chats and Contexts are stored
C9_Witness ==
    \E p \in Procs :
        /\ Done(p, "delete_title") /\ ret[p].status = 404
        /\ req[p].id <= uuid.Title
        /\ Title # {} /\ Chat # {} /\ Context # {}

\* a POST /api/messages answered 201 after finding no Conversation record of
\* its conversation id
FoundMissing(t) ==
    cpc[t] = "done" /\ resp[t].status = 201 /\ ~conversation_exists[t]

\* C10: concurrent first messages posted under the same conversation id that
\* all found that the conversation does not exist have each prepended a
\* Conversation record: as many records carry the id as requests found it
\* missing, two of them for two concurrent first messages.
C10_BothPrepend ==
    \A t \in Threads :
        FoundMissing(t) =>
            Cardinality(Positions(conversation_id[t])) >=
                Cardinality({u \in Threads : /\ FoundMissing(u)
                                             /\ conversation_id[u] = conversation_id[t]})

\* two first messages under the unseen id "c1" both found it missing, and the
\* two records at the head of the conversation list carry that id
C10_Witness ==
    \E t, u \in Threads :
        /\ t # u /\ FoundMissing(t) /\ FoundMissing(u)
        /\ conversation_id[t] = "c1" /\ conversation_id[u] = "c1"
        /\ "c1" \notin {SeedConversations[i].id : i \in DOMAIN SeedConversations}
        /\ Positions("c1") = {1, 2}

\* the messages seeded under a conversation id, and the id a message posted
\* under cid carries when it read a count of k - 1
SeedLen(cid) == IF cid \in DOMAIN SeedMessages THEN Len(SeedMessages[cid]) ELSE 0
IdOf(cid, k) == "msg_" \o cid \o "_" \o ToString(k)
\* the thread has built new_message and not yet appended it
Unappended(t) == cpc[t] \in {"messages_check", "messages_init", "messages_append"}

\* C11: the message id is "msg_", the conversation id and the number of
\* messages stored under the conversation when the request reads it, plus
\* one; the read changes nothing, and the message is appended by a later
\* step with the id it was given at the read.
C11_IdFromCountAtRead ==
    [][\A t \in Threads :
         /\ (cpc[t] = "idle" /\ cpc'[t] = "messages_check") =>
              /\ new_message'[t].id =
                   IdOf(conversation_id'[t], Len(messages_get(conversation_id'[t])) + 1)
              /\ UNCHANGED chat_database
         /\ (Unappended(t) /\ cpc'[t] = "conversation_exists") =>
              /\ chat_database'.messages[conversation_id[t]] =
                   Append(chat_database.messages[conversation_id[t]], new_message[t])
              /\ new_message[t].id \in
                   {IdOf(conversation_id[t], k) : k \in 1..(SeedLen(conversation_id[t]) + posts)}
      ]_vars

\* two messages stored under one conversation carry the same id
C11_Witness ==
    \E cid \in DOMAIN chat_database.messages :
        \E i, j \in DOMAIN chat_database.messages[cid] :
            /\ i < j
            /\ chat_database.messages[cid][i].id = chat_database.messages[cid][j].id

\* C12: a valid POST with no conversationId, or with one no Conversation
\* record carries, served alone, creates exactly one Conversation record of
\* the id, with messageCount = 1, lastMessage = content and title = content
\* when content has at most 50 characters, else its first 50 characters
\* followed by "..."; and exactly one message, the new one, is stored under
\* the id.
C12_NewConversation ==
    \A t \in Threads :
        FoundMissing(t) =>
            LET cid == conversation_id[t]
                content == data[t].content
                conv == chat_database.conversations[1]
            IN /\ Positions(cid) = {1}
               /\ conv.messageCount = 1
               /\ conv.lastMessage = content
               /\ Len(content) <= 50 => conv.title = content
               /\ Len(content) > 50 =>
                    /\ Len(conv.title) = 53
                    /\ SubSeq(conv.title, 1, 50) = SubSeq(content, 1, 50)
                    /\ SubSeq(conv.title, 51, 53) = "..."
               /\ cid \in DOMAIN chat_database.messages
               /\ chat_database.messages[cid] = <<new_message[t]>>
               /\ new_message[t].content = content
               /\ data[t].conversationId = Absent => cid = Uuid(uuid4)

\* a POST without conversationId and with a content of 51 characters was
\* served after an earlier one of 50 characters under the unseen id "c1"
C12_Witness ==
    \E t \in Threads :
        /\ FoundMissing(t)
        /\ data[t].conversationId = Absent /\ data[t].content = Long
        /\ Positions("c1") # {}
        /\ \E i \in Positions("c1") : chat_database.conversations[i].title = Fifty

\* C13: in the list GET /api/conversations returns, a newly synthesized
\* conversation is placed at the front, before the records there were, and
\* an append to an existing conversation changes only that record's
\* lastMessage, timestamp and messageCount, the last by exactly 1: the
\* record keeps its position, its id and its title, and every other record
\* is unchanged.
C13_ListFrame ==
    [][\A t \in Threads :
         LET before == get_conversations.conversations
             after  == get_conversations'.conversations
         IN /\ (cpc[t] = "conversations_insert" /\ cpc'[t] = "done") =>
                 /\ after # << >>
                 /\ Head(after).id = conversation_id[t]
                 /\ Tail(after) = before
            /\ (cpc[t] = "conversations_update" /\ cpc'[t] = "done") =>
                 /\ Len(after) = Len(before)
                 /\ \E i \in DOMAIN before :
                      /\ before[i].id = conversation_id[t]
                      /\ after[i] = [before[i] EXCEPT
                                        !.lastMessage = data[t].content,
                                        !.timestamp = new_message[t].timestamp,
                                        !.messageCount = before[i].messageCount + 1]
                      /\ \A j \in DOMAIN before \ {i} : after[j] = before[j]
      ]_vars

\* an append to the seeded conversation "conv_001" was served while a
\* synthesized conversation stands before it at the front of the list
C13_Witness ==
    \E t \in Threads :
        /\ cpc[t] = "done" /\ resp[t].status = 201 /\ conversation_exists[t]
        /\ conversation_id[t] = "conv_001"
        /\ get_conversations.conversations[2].id = "conv_001"
        /\ get_conversations.conversations[2].messageCount = 6
        /\ get_conversations.conversations[1].id \notin
             {SeedConversations[i].id : i \in DOMAIN SeedConversations}

\* ----------------------------------------------------------- search
\* two characters that are the same but for their case
OtherCase ==
    [c \in {Upper[i] : i \in DOMAIN Upper} \cup {Lower[i] : i \in DOMAIN Lower} |->
        IF \E i \in DOMAIN Upper : Upper[i] = c
        THEN Lower[CHOOSE i \in DOMAIN Upper : Upper[i] = c]
        ELSE Upper[CHOOSE i \in DOMAIN Lower : Lower[i] = c]]
SameLetter(a, b) ==
    a = b \/ (a \in DOMAIN OtherCase /\ OtherCase[a] = b)
\* two strings that are the same but for the case of their letters
SameIgnoringCase(s, u) ==
    /\ Len(s) = Len(u)
    /\ \A i \in 1..Len(s) : SameLetter(SubSeq(s, i, i), SubSeq(u, i, i))
\* the stored messages, by conversation id and position, whose content
\* holds the text at some place, ignoring case
Mentioning(needle) ==
    {p \in UNION {{<<cid, j>> : j \in DOMAIN chat_database.messages[cid]} :
                    cid \in DOMAIN chat_database.messages} :
        LET content == chat_database.messages[p[1]][p[2]].content
        IN \E i \in 1..(Len(content) - Len(needle) + 1) :
               SameIgnoringCase(SubSeq(content, i, i + Len(needle) - 1), needle)}
\* the result is the stored message at p
ResultOf(result, p) ==
    LET message == chat_database.messages[p[1]][p[2]]
    IN /\ result.conversationId = p[1]
       /\ result.messageId = message.id
       /\ result.content = message.content
       /\ result.sender = message.sender
       /\ result.timestamp = message.timestamp
\* the seeded messages of conv_002 that mention MongoDB, newest first
SeededMongoDB == <<"msg_002_7", "msg_002_4", "msg_002_2", "msg_002_1">>

\* C14: a search with a non-empty query answers all and only the stored
\* messages, of every conversation, whose content holds the query as a
\* substring ignoring case, in the order of non-increasing timestamp, with
\* total the number of results, whenever the search is served, between the
\* POSTs; the search for "MongoDB" answers the
\* seeded messages of conv_002 that mention MongoDB, the newer before the
\* older.
C14_Search ==
    \A q \in Queries :
        (strip(q) # "" /\ \A t \in Threads : cpc[t] = "idle") =>
            LET body == search_response(q).body
                results == body.results
                found == Mentioning(strip(q))
            IN /\ Len(results) = Cardinality(found)
               /\ \A p \in found : \E i \in DOMAIN results : ResultOf(results[i], p)
               /\ \A i \in DOMAIN results : \E p \in found : ResultOf(results[i], p)
               /\ \A i \in 1..(Len(results) - 1) :
                      results[i].timestamp >= results[i + 1].timestamp
               /\ body.total = Len(results)
               /\ q = "MongoDB" =>
                      \E at \in [DOMAIN SeededMongoDB -> DOMAIN results] :
                          /\ \A k \in DOMAIN SeededMongoDB :
                                 /\ results[at[k]].messageId = SeededMongoDB[k]
                                 /\ results[at[k]].conversationId = "conv_002"
                          /\ \A k \in 1..(Len(SeededMongoDB) - 1) : at[k] < at[k + 1]

\* a search for "  hello " was answered with two posted messages, stored in
\* upper case under two conversations, one of them synthesized
C14_Witness ==
    /\ reply.endpoint = "search" /\ reply.q = "  hello "
    /\ reply.body = search_response("  hello ").body
    /\ reply.body.total = 2
    /\ reply.body.results[1].content = "Hello"
    /\ reply.body.results[1].conversationId # reply.body.results[2].conversationId
    /\ reply.body.results[2].conversationTitle = "Hello"

\* C15: a search with an empty query, or one of whitespace only, matches
\* no message: the response has results = [] and total = 0.
C15_EmptyQuery ==
    (reply.endpoint = "search" /\ strip(reply.q) = "") =>
        /\ reply.body.results = << >>
        /\ "total" \in DOMAIN reply.body
        /\ reply.body.total = 0

\* ------------------------------------------------------- AI responses
\* the last request was for an AI response, passed the validation, and the
\* upstream generation call failed
UpstreamFailed ==
    /\ reply.endpoint = "ai-response"
    /\ reply.upstream \in Upstream \ {"text"}

\* C16 as stated: when the upstream generation call fails, get_response
\* does not raise and returns a fallback string that contains the user's
\* message, for every mode, the unrecognized ones too.
C16_FallbackEchoes ==
    UpstreamFailed =>
        LET ai_response == get_response(reply.data.message, reply.data.mode,
                                        reply.upstream, "Four.")
        IN /\ ~ai_response.raised
           /\ contains(ai_response.value, reply.data.message)

\* C16, amended: when the upstream generation call fails and the mode is a
\* string, get_response does not raise; for math, english, history and
\* general it returns a fallback string that contains the user's message,
\* and for any other mode the one fixed string, whatever the message.
C16_Fallback ==
    (UpstreamFailed /\ reply.data.mode # ListMode) =>
        /\ reply.code = 200
        /\ reply.data.mode \in KnownModes =>
              /\ contains(reply.body.response, reply.data.message)
              /\ reply.body.response # GenericFallback
        /\ reply.data.mode \notin KnownModes =>
              reply.body.response = GenericFallback

\* the upstream call failed for the mode "science" and the answer does not
\* hold the user's message
C16_Witness ==
    /\ UpstreamFailed
    /\ reply.data.mode = "science" /\ reply.data.message = "What is 2+2?"
    /\ reply.code = 200
    /\ ~contains(reply.body.response, reply.data.message)

\* C17: POST /api/ai-response with message and mode present answers 500
\* when the upstream generation call fails.
C17_UpstreamFailure500 ==
    UpstreamFailed => reply.code = 500

\* ------------------------------------------------- POST validation
\* the request has no body, or its content or its sender is missing or
\* empty
MissingField(body) ==
    \/ body = NoBody
    \/ body.content = Absent \/ body.content = ""
    \/ body.sender = Absent \/ body.sender = ""

Ceil(a, b) == -((-a) \div b)

\* C19: for a text of length L, a window W and an overlap O with
\* 0 <= O < W, the call returns exactly ceil((L - O) / (W - O)) chunks.
C19_ChunkCount ==
    (kpc = "done" /\ chunk_overlap < chunk_size) =>
        Len(chunks) = Ceil(Len(text) - chunk_overlap, chunk_size - chunk_overlap)

\* C20: for a window W and an overlap O with 0 <= O < W, every chunk
\* returned but possibly the last is W characters long.
C20_ChunkLength ==
    (kpc = "done" /\ chunk_overlap < chunk_size) =>
        \A i \in 1..(Len(chunks) - 1) : Len(chunks[i]) = chunk_size

\* a chunk without its leading chunk_overlap characters
RemoveOverlap(chunk) == SubSeq(chunk, chunk_overlap + 1, Len(chunk))
\* the first chunk followed by the others, each without its overlap
RECURSIVE Rest(_, _)
Rest(cs, i) == IF i > Len(cs) THEN << >> ELSE RemoveOverlap(cs[i]) \o Rest(cs, i + 1)
Reconstructed == IF Len(chunks) = 0 THEN << >> ELSE chunks[1] \o Rest(chunks, 2)
\* the places where the loop opens a window, and the windows it drops
WindowStarts ==
    {k * (chunk_size - chunk_overlap) : k \in 0..Len(text)} \cap 0..(Len(text) - 1)
NoBlankWindow ==
    \A s \in WindowStarts :
        \E i \in (s + 1)..(s + chunk_size) : i <= Len(text) /\ text[i] \notin Whitespace

\* C21 as stated: for any text, window W and overlap O with 0 <= O < W,
\* the chunks in order, each but the first without its leading O
\* characters, concatenate to the original text.
C21_Reconstructs ==
    (kpc = "done" /\ chunk_overlap < chunk_size) => Reconstructed = text

\* C21, amended: the same, for a text no window of which holds only
\* whitespace (such a window is dropped, and its characters with it).
C21_ReconstructsKept ==
    (kpc = "done" /\ chunk_overlap < chunk_size /\ NoBlankWindow) =>
        Reconstructed = text

\* a text with a blank in it was cut into four overlapping chunks, none
\* dropped, the last shorter than the window
C21_Witness ==
    /\ kpc = "done" /\ NoBlankWindow
    /\ chunk_size = 2 /\ chunk_overlap = 1
    /\ Len(chunks) = 4 /\ Len(chunks[4]) = 1
    /\ \E i \in DOMAIN text : text[i] = " "

\* C22: a call with chunk_overlap >= chunk_size fails with an
\* InvalidArgument error: it does not enter the loop and returns no chunks.
C22_InvalidArgument ==
    (kpc # "idle" /\ chunk_overlap >= chunk_size) =>
        /\ kpc = "InvalidArgument"
        /\ chunks = << >>

\* C25: the call terminates on every input, chunk_overlap >= chunk_size
\* included: the loop, once entered, reaches its exit.
C25_Terminates == (kpc = "while") ~> (kpc = "done")

\* ------------------------------------------------------ test_api_key
\* C23 as stated: the test of a mode answers true exactly when the
\* smoke-test call returned a text that is not empty; it answers false for
\* an empty text and when the call raises, and nothing is raised.
C23_TrueIffNonEmpty ==
    reply.endpoint = "test-gemini" =>
        /\ reply.code = 200
        /\ \A mode \in KnownModes :
              reply.body.api_tests[mode] =
                  (reply.smoke[mode] \in SmokeTexts /\ reply.smoke[mode] # "")

\* C23, amended: the test of a mode answers true exactly when the
\* smoke-test call returned and its text is not None, an empty text
\* included; it answers false when the call raises, and nothing is raised.
C23_TrueIffReturned ==
    reply.endpoint = "test-gemini" =>
        /\ reply.code = 200
        /\ \A mode \in KnownModes :
              reply.body.api_tests[mode] = (reply.smoke[mode] \in SmokeTexts)

\* the four modes were tested: one call returned an empty text and is
\* answered true, one raised and one returned None and are answered false
C23_Witness ==
    /\ reply.endpoint = "test-gemini"
    /\ reply.smoke["math"] = "" /\ reply.body.api_tests["math"]
    /\ reply.smoke["english"] \in SmokeRaises /\ ~reply.body.api_tests["english"]
    /\ reply.smoke["history"] = NoneText /\ ~reply.body.api_tests["history"]
    /\ reply.smoke["general"] = "Hello!" /\ reply.body.api_tests["general"]

\* ------------------------------------------------------- the prompt
\* the role a turn is rendered with
RoleOf(sender) == IF sender = "user" THEN "User" ELSE "N0b0dy"
Rendered(turn) == RoleOf(turn.sender) \o ": " \o turn.content

\* C24: with a history of n > 0 turns, the prompt holds, after the system
\* prompt and the heading, exactly the last min(10, n) turns in their
\* order, each as one line "role: content" with the role User for the
\* sender user and N0b0dy otherwise, then the current user message; no
\* line renders an earlier turn.
C24_LastTenTurns ==
    (reply.endpoint = "generate_content" /\ Len(reply.conversation_history) > 0) =>
        LET history == reply.conversation_history
            n == Len(history)
            k == IF n < 10 THEN n ELSE 10
            prompt == reply.prompt
        IN /\ Len(prompt) = 3 + k + 2
           /\ prompt[3] = "Conversation History:"
           /\ \A j \in 1..k : prompt[3 + j] = Rendered(history[n - k + j])
           /\ prompt[3 + k + 1] = ""
           /\ prompt[3 + k + 2] = "Current User Message: " \o reply.user_message
           /\ \A i \in 1..(n - k) : \A j \in DOMAIN prompt : prompt[j] # Rendered(history[i])

\* a prompt was built from a history of twelve turns: its first history
\* line is the third turn, its last the twelfth
C24_Witness ==
    /\ reply.endpoint = "generate_content"
    /\ Len(reply.conversation_history) = 12
    /\ reply.conversation_history[3].sender = "user"
    /\ reply.prompt[4] = "User: turn 3"
    /\ reply.prompt[13] = Rendered(reply.conversation_history[12])

\* ---------------------------------------------------- lost messages
\* C26: under any interleaving of concurrent POST /api/messages requests,
\* when every request has completed, each message answered with 201 is in
\* the list stored under its conversation id.
C26_NoLostMessage ==
    (\A u \in Threads : cpc[u] \in {"idle", "done"}) =>
        \A t \in Threads :
            (cpc[t] = "done" /\ resp[t].status = 201) =>
                /\ conversation_id[t] \in DOMAIN chat_database.messages
                /\ \E i \in DOMAIN chat_database.messages[conversation_id[t]] :
                       chat_database.messages[conversation_id[t]][i] = resp[t].message

\* ------------------------------------------------ concurrent deletes
\* C27: when delete_title requests for one existing Title run
\* concurrently and no storage call raises, each ends in success or in
\* 404 Not Found, none in 500.
C27_NoServerError ==
    \A p \in Procs :
        Done(p, "delete_title") => ret[p].status \in {200, 404}

\* ------------------------------------------------ repeated updates
\* C28: update_context(id, c) on an existing Context answers success with
\* the stored context equal to c, for every c, the value already stored
\* included.
C28_UpdateSucceeds ==
    \A p \in Procs :
        (Done(p, "update_context") /\ find(pre.Context, "id_context", req[p].id) # {}) =>
            /\ ret[p].status = 200
            /\ \A x \in ContextDB_get_by_id(req[p].id) : x.context = req[p].context

\* ------------------------------------------------- message counts
\* the ids of the seeded Conversation records
SeededIds == {SeedConversations[i].id : i \in DOMAIN SeedConversations}

ReadEndpoints ==
    {"conversations", "messages", "conversation", "search", "health", "ai-response"}

\* C30: GET /api/conversations, GET /api/messages, GET /api/conversation/{id},
\* GET /api/search, GET /api/health and POST /api/ai-response leave the
\* conversation list and the message map as they were; GET /api/messages
\* for a conversationId that has no entry answers an empty list and makes
\* no entry, and ai-response stores neither the user's message nor the
\* reply.
C30_ReadsStoreNothing ==
    [][(reply' # reply /\ reply' # NoReply) =>
          /\ reply'.endpoint \in ReadEndpoints
          /\ chat_database' = chat_database
          /\ keys' = keys
          /\ (reply'.endpoint = "messages" /\ reply'.code = 200
                /\ reply'.conversationId \notin DOMAIN chat_database.messages) =>
                 /\ reply'.body.messages = << >>
                 /\ reply'.conversationId \notin DOMAIN chat_database'.messages
          /\ \A cid \in ArgIds :
                (reply'.endpoint = "ai-response" /\ reply'.data.json
                  /\ reply'.data.conversationId = cid) =>
                    messages_get(cid)' = messages_get(cid)]_vars

\* after a POST made a conversation, GET /api/messages has answered the
\* empty list for an id without an entry, and the id still has none
C30_Witness ==
    /\ posts > 0
    /\ reply.endpoint = "messages"
    /\ reply.code = 200
    /\ reply.conversationId = UnseenId
    /\ reply.body.messages = << >>
    /\ UnseenId \notin DOMAIN chat_database.messages

====
